---- MODULE Spec2Model ----
(***************************************************************************)
(* Visual servo controller of MACH_VII (strategy/visual_servoing.py).       *)
(*                                                                          *)
(* The controller is a module-level singleton shared by every caller        *)
(* thread.  Each caller thread runs execute_approach_and_grasp; stop() may  *)
(* be called from any other thread at any time.                             *)
(*                                                                          *)
(* Units: time in centiseconds (0.01 s), lengths in 0.01 cm, gripper        *)
(* aperture in 0.0001 of the unit of system_state.robot.gripper_state,      *)
(* focus score in whole points.                                             *)
(*                                                                          *)
(* Time: time.time() differences are kept as ages (time since the stored    *)
(* timestamp).  A sleep advances every age by its duration.  The period     *)
(* sleep of the control loop sleeps at least the period: it takes exactly   *)
(* the period, or is delayed past the loop deadline (LONG_DELAY).  The      *)
(* statements between two sleeps take no time.                              *)
(*                                                                          *)
(* An action is the code between two reads of the cancellation flag, so     *)
(* that stop() can fall before or after every such read.                    *)
(***************************************************************************)
EXTENDS Integers, Sequences, FiniteSets, TLC

(* ------------------------------ bounds --------------------------------- *)
\* accepted invocations explored in one behaviour
MaxCalls == 2
\* control-loop ticks of one invocation that take exactly one period
MaxTicks == 22
\* publishes of an intent on the broadcaster in one behaviour
MaxPublish == 4
\* frames handed to get_refined_detections in one behaviour
MaxFrames == 3
\* focus scores of the environment are 20 apart, from 0 to 20 * MaxLevels
MaxLevels == 11

Threads == {1, 2}

NONE == 0 - 1
NOPOS == <<>>

(* ------------------------- program constants --------------------------- *)
XY_THRESHOLD == 100
Z_THRESHOLD == 50
APPROACH_HEIGHT == 800
GAIN_NUM == 4
GAIN_DEN == 5
LOOP_PERIOD == 10
TIMEOUT == 6000
LOST_GRACE == 200
LOST_SLEEP == 10
SM_SLEEP == 1
DETECT_WAIT == 100
DETECT_RETRIES == 3
DEDUP_DIST == 10
SPEED_SLOW_BELOW == 300
SPEED_MID_BELOW == 1000
SPEED_SLOW == 15
SPEED_MID == 30
SPEED_FAST == 60
AF_STEP == 50
AF_RANGE == 500
AF_ITER == 10
AF_IMPROVE == 10
VLM_CONFIDENT_ABOVE == 50
GRASP_WINDOW == 350
GRASP_SAMPLE == 5
GRASP_EPS == 5
GRASP_STABLE == 10
GRASP_MIN == 50
GRASP_DEPTH_INIT == 0
SCAN_OFFSET == 200

LONG_DELAY == TIMEOUT + 1

\* shared/filters.py and the tuning of pybullet_vision.py, in 0.0001
COV_ONE == 10000
PROCESS_VAR == 10
MEASURE_VAR == 1
\* pybullet_projection.py: principal point (px), focal lengths (0.01 px),
\* camera eye (0.01 cm), cos 45 degrees (0.0001)
CX == 300
CY == 240
FX_E2 == 41569
FY_E2 == 41569
EYE_X == 5000
EYE_Z == 5000
COS45_E4 == 7071
\* oracle radius squared (cm squared); position tolerance (0.01 cm)
NEAR_SQ == 400
POS_TOLERANCE == 500
\* vision_bridge.py: plausible depth range (0.0001 m)
DEPTH_MIN == 1000
DEPTH_MAX == 30000
\* grasp_planner.py (0.01 cm, px, 0.01 percent)
GRIPPER_MAX_WIDTH_CM == 600
FOCAL_LENGTH_PX == 520
EST_DIST == 5000
APPROACH_INIT == 1000
PERCENT_FULL == 10000
DEPTH_OFFSET_INIT == 300
EDGE_MARGIN == 150
EDGE_PERCENT == 6000
EDGE_DEPTH == 200
WIDTH_MARGIN == 200
PERCENT_MIN == 4000
KITE_DEPTH == 50
KITE_APPROACH == 800

(* ----------------------- inputs of the environment --------------------- *)
\* position of the named target in the detection list
Target == <<3000, 0, 500>>
\* poses returned by get_ee_position: far from the target; above it at the
\* approach height; at grasp height for the offset -1.5 cm (z error 20); on
\* the edge of the z threshold for that offset (z error 50)
EeFar == <<0, 0, 2000>>
EeAbove == <<3000, 0, 1300>>
EeLow == <<3000, 0, 330>>
EeEdge == <<3000, 0, 400>>
\* half a millimetre below EeLow
EeNear == <<3000, 0, 325>>

\* grasp_offset_z: the default of the callers, and a grasp pose without
\* depth offset
GraspOffsets == {0 - 150, 0}

\* An environment: who calls, and what the controller may read.
\*   callers   threads that call execute_approach_and_grasp
\*   budget    accepted invocations explored
\*   stop      whether stop() is called
\*   offsets   grasp_offset_z of a call
\*   det       detection list during DETECT (NOPOS: target absent)
\*   det_loop  detection list during the control loop
\*   ee        get_ee_position()
\*   focus     system_state.focus_score
\*   grip_mon  gripper_state during grasp monitoring
\*   grip_ver  gripper_state at grasp verification
\*   delays    duration of a period sleep of the control loop
\*   intents   values published under action_intent
\*   grasps    identities (target name and timestamp) of the values
\*             published under grasp_intent
\*   ideal     the actuator is ideal: the pose at the next read equals the
\*             last command sent, from the first pose of ee
\*   linked    the worker of the RobotController is the caller: an item
\*             it executes calls execute_approach_and_grasp (thread 1)
\*   started   PerceptionManager.start() has been called: the update loop
\*             runs
\*   drv       what a call of the driver does: "ok"; "false" (a motion or
\*             gripper command returns False); "raise_read"
\*             (get_ee_position raises); "raise_cmd" (the command raises)
EnvBase ==
    [callers |-> {1}, budget |-> 1, stop |-> FALSE, offsets |-> {0 - 150},
     det |-> {Target}, det_loop |-> {Target}, ee |-> {EeLow},
     focus |-> {60}, grip_mon |-> {200}, grip_ver |-> {200},
     delays |-> {"exact"}, drv |-> {"ok"}, intents |-> {}, grasps |-> {},
     sim_mode |-> TRUE, modes |-> {}, keys |-> {}, dets |-> {},
     names |-> {}, ideal |-> FALSE, linked |-> FALSE, started |-> FALSE]

\* two callers and stop() against every state of the machine
EnvConcurrent ==
    [EnvBase EXCEPT !.callers = Threads, !.budget = MaxCalls, !.stop = TRUE,
                    !.det = {NOPOS, Target}, !.focus = {20, 60},
                    !.grip_ver = {5, 200}]

\* one caller, two invocations in a row; the target comes and goes
EnvLost ==
    [EnvBase EXCEPT !.budget = MaxCalls, !.det = {NOPOS, Target},
                    !.det_loop = {NOPOS, Target}, !.grip_ver = {5, 200},
                    !.ee = {EeLow, EeNear}]

\* sleeps may overrun; the arm may stay on the edge of the z threshold
EnvSlow ==
    [EnvBase EXCEPT !.budget = MaxCalls, !.delays = {"exact", "long"},
                    !.ee = {EeEdge, EeLow}, !.det_loop = {NOPOS, Target},
                    !.grip_ver = {5, 200}]

\* the arm anywhere, both grasp offsets, two invocations in a row
EnvMotion ==
    [EnvBase EXCEPT !.budget = MaxCalls, !.offsets = GraspOffsets,
                    !.ee = {EeFar, EeAbove, EeEdge, EeLow},
                    !.focus = {20, 60}]

\* stop() against a gripper that moves and settles anywhere
EnvGrasp ==
    [EnvBase EXCEPT !.stop = TRUE, !.grip_mon = {5, 200},
                    !.grip_ver = {5, 50, 51, 200}]

\* a driver that fails: commands return False or raise, reads raise
EnvDriver ==
    [EnvBase EXCEPT !.drv = {"ok", "false", "raise_read", "raise_cmd"},
                    !.focus = {20, 60}, !.grip_ver = {5, 200}]

\* a fixed target and an ideal actuator that starts far from it; a second
\* caller tries either offset meanwhile
EnvIdeal ==
    [EnvBase EXCEPT !.ideal = TRUE, !.ee = {EeFar}, !.offsets = GraspOffsets,
                    !.callers = Threads]

\* the arm is aligned with the target at one read and 2 cm beside it, at
\* the grasp height, at another
EnvDrift ==
    [EnvBase EXCEPT !.ee = {EeLow, <<EeLow[1] - 200, EeLow[2], EeLow[3]>>}]

\* focus scores that can rise through a whole auto-focus pass
FocusLevels == {20 * k : k \in 0 .. MaxLevels}

\* an image that sharpens and blurs at will
EnvFocus == [EnvBase EXCEPT !.focus = FocusLevels]

\* values of action_intent: two wordings of a stop, a resume, an action
ActionIntents == {"stop", "stop now", "resume", "pick"}
\* identities of grasp intents
GraspIntents == {"cup_1", "cup_2"}

\* intents reach the RobotController; the servo routine is not called
EnvIntents ==
    [EnvBase EXCEPT !.callers = {}, !.intents = ActionIntents,
                    !.grasps = GraspIntents]

\* intents reach the RobotController, whose worker runs the servo routine
EnvEstop ==
    [EnvBase EXCEPT !.callers = {}, !.intents = {"stop", "pick", "resume"},
                    !.grasps = {"cup_1"}, !.linked = TRUE,
                    !.budget = MaxCalls]

\* operating modes handed to VisionBridge.set_mode
Modes == {"STEADYCAM", "EXPLORATION", "EXPLOITATION"}
\* source keys handed to VisionBridge.switch_source
SourceKeys == {"main", "gripper", "realsense", "thermal"}

\* A detection of the 2-D detector with the depth frame under it: the
\* pixel centre, the depth samples of the inner region of the bounding box
\* (roi) and the depth of the centre pixel.  Depths in 0.0001 m.
Det(u, v, roi, center) == [u |-> u, v |-> v, roi |-> roi, center |-> center]
Detections ==
    {Det(300, 240, <<7070>>, 7070), Det(300, 240, <<7000, 7400>>, 7000),
     Det(340, 240, <<>>, 7070), Det(300, 240, <<50000>>, 50000),
     Det(300, 240, <<600>>, 600), Det(300, 240, <<0>>, 0)}

\* object names handed to the grasp planner
PlannerNames == {"cup", "kite", "box"}

\* the simulated variant: frames reach the bridge in either mode
EnvVision ==
    [EnvBase EXCEPT !.callers = {}, !.modes = {"STEADYCAM", "EXPLOITATION"},
                    !.dets = Detections]

\* the simulated variant with the perception update loop running; a frame
\* with a plausible depth and one without
EnvPerception ==
    [EnvBase EXCEPT !.callers = {}, !.modes = {"STEADYCAM", "EXPLOITATION"},
                    !.dets = {Det(300, 240, <<7070>>, 7070),
                              Det(300, 240, <<0>>, 0)},
                    !.started = TRUE]

\* the simulated variant: source selection by mode and by the API server
EnvSources ==
    [EnvBase EXCEPT !.callers = {}, !.modes = Modes, !.keys = SourceKeys]

\* the hardware variant (GlobalConfig.SIM_MODE is False): source selection
EnvHardware ==
    [EnvBase EXCEPT !.callers = {}, !.sim_mode = FALSE, !.modes = Modes,
                    !.keys = SourceKeys]

\* the grasp planner and its memory
EnvPlanner ==
    [EnvBase EXCEPT !.callers = {}, !.names = PlannerNames]

Envs == {EnvConcurrent, EnvLost, EnvSlow, EnvMotion, EnvGrasp, EnvDriver,
         EnvIdeal, EnvFocus, EnvEstop, EnvDrift,
         EnvIntents, EnvVision, EnvPerception, EnvSources, EnvHardware,
         EnvPlanner}

VARIABLES
    \* VisualServoing instance (shared)
    is_running, cancel_token, current_state, GRASP_DEPTH,
    _detect_retry, _loop_retry_age, _last_sent_cmd, _scan_step,
    \* per caller thread
    pc, success, ret, lp, af, gm,
    \* the environment, fixed by Init
    env,
    \* observation (history) variables
    gh, calls, last_fail,
    \* RobotController instance, and the broadcaster's latest_state
    rc, snap,
    \* PybulletVision's three filters, the VisionBridge instance, and what
    \* the last call of the bridge did (observation)
    kf, bridge, vo,
    \* system_state.perception_data
    perception_data,
    \* GraspPlanner.grasp_memory, and what the last call of the planner did
    grasp_memory, gp,
    \* the pose of the ideal actuator (NOPOS when the actuator is not
    \* ideal), and the directions of the last scanning passes (observation)
    arm, scans

vars == <<is_running, cancel_token, current_state, GRASP_DEPTH,
          _detect_retry, _loop_retry_age, _last_sent_cmd, _scan_step,
          pc, success, ret, lp, af, gm, env, gh, calls, last_fail,
          rc, snap, kf, bridge, vo, perception_data, grasp_memory, gp,
          arm, scans>>

\* perception and planning
percept == <<kf, bridge, vo, perception_data, grasp_memory, gp>>

\* the actuator and the scanning history
motion == <<arm, scans>>

\* the variables outside the servo controller
outer == <<rc, snap, percept>>

\* what most steps of the servo controller leave alone
aux == <<outer, motion>>

ctl == <<is_running, cancel_token, current_state, GRASP_DEPTH,
         _detect_retry, _loop_retry_age, _last_sent_cmd, _scan_step>>

(* ------------------------------ helpers -------------------------------- *)
Min(a, b) == IF a < b THEN a ELSE b
Abs(a) == IF a < 0 THEN 0 - a ELSE a
Sq(a) == a * a

\* an age after d more centiseconds; ages beyond every deadline are equal
AgeCap == TIMEOUT + 1
LostCap == LOST_GRACE + 1
\* time.time() - start_time, d centiseconds later
AdvElapsed(e, d) == Min(e + d, AgeCap)
\* time.time() - self._loop_retry_start, d centiseconds later
Adv(age, d) == IF age = NONE THEN NONE ELSE Min(age + d, LostCap)
\* a sleep lasts its nominal duration, or longer than every deadline
Dur(delay, nominal) == IF delay = "long" THEN LONG_DELAY ELSE nominal

\* locals of _visual_servo_loop: phase, time since start_time; ep observes
\* the true age of the current loss episode
\* cmd and sent observe the last tick: the command it computed (none in
\* a tick without target) and whether it was sent
LpIdle == [phase |-> "APPROACH", elapsed |-> 0, ep |-> NONE,
           cmd |-> <<>>, sent |-> FALSE]
\* locals of _execute_auto_focus: iterations made, direction,
\* current_z_offset, best_score, start_pos; sent, last_z, best_off and done
\* observe: the points commanded in the last iteration, the last z
\* commanded, the offset at which best_score was read, how the pass ended
AfIdle == [i |-> 0, dir |-> 1, off |-> 0, best |-> 0, start |-> NOPOS,
           sent |-> <<>>, last_z |-> NONE, best_off |-> 0, done |-> "no"]
\* locals of the grasp monitor: time since start_grasp_time,
\* last_gripper_val, stable_count
GmIdle == [elapsed |-> 0, last |-> 0, stable |-> 0]
\* observations of the current invocation of a thread
GhIdle == [accepted |-> FALSE, acted |-> FALSE, stop_pc |-> "none",
           stop_state |-> "none", verify |-> NONE, grasped |-> FALSE,
           cause |-> "none", end_state |-> "none", misses |-> 0,
           fail_misses |-> NONE, lost_ep |-> NONE, late |-> FALSE,
           z_det |-> NONE, z_settle |-> NONE, xy_det |-> NONE, f_cmd |-> <<>>,
           f_scan |-> NONE, diverged |-> FALSE,
           cmd_failed |-> FALSE, raised |-> FALSE,
           score |-> NONE, closed |-> FALSE, scan |-> <<>>,
           after |-> NONE]

\* RobotController.__init__ and start(): running, nothing received, the
\* queue empty, the lock open, the worker waiting on the queue; published
\* counts the publishes; ev, placed_locked and started_locked observe
RcInit ==
    [last_intent |-> "none", safety_lock |-> FALSE, action_queue |-> <<>>,
     last_grasp_intent |-> "none", worker |-> "idle", estop |-> FALSE,
     published |-> 0, ev |-> "none", placed_locked |-> FALSE,
     started_locked |-> FALSE, item |-> <<>>, stale |-> FALSE]

(* ------------------- execute_approach_and_grasp: entry ----------------- *)
\* a controller without the re-entrancy test
RejectsNever == FALSE

\* the re-entrancy test made under self.lock
Rejects == is_running

\* an offset stored before the re-entrancy test
RejectedDepthStored(gz) == gz

\* GRASP_DEPTH after a rejected call: self.GRASP_DEPTH = grasp_offset_z
\* comes after the return of the rejection
RejectedDepth(gz) == GRASP_DEPTH

\* with self.lock: reject, or take the controller; then GRASP_DEPTH.
\* The observation of a finished invocation is consumed (Release) before
\* the next invocation is accepted.
Call(t, gz) ==
    /\ pc[t] = "idle"
    /\ t \in env.callers
    /\ gz \in env.offsets
    /\ IF Rejects
       THEN /\ pc' = [pc EXCEPT ![t] = "done"]
            /\ ret' = [ret EXCEPT ![t] = FALSE]
            /\ gh' = [gh EXCEPT ![t] = GhIdle]
            /\ GRASP_DEPTH' = RejectedDepth(gz)
            /\ UNCHANGED <<is_running, cancel_token, current_state,
                           _detect_retry, _loop_retry_age, _last_sent_cmd,
                           _scan_step, success, lp, af, gm, calls>>
       ELSE /\ calls < env.budget
            /\ \A u \in Threads : ~(pc[u] = "done" /\ gh[u].accepted)
            /\ calls' = calls + 1
            /\ is_running' = TRUE
            /\ cancel_token' = FALSE
            /\ current_state' = "IDLE"
            /\ GRASP_DEPTH' = gz
            /\ success' = [success EXCEPT ![t] = FALSE]
            /\ pc' = [pc EXCEPT ![t] = "sm"]
            /\ gh' = [gh EXCEPT ![t] = [GhIdle EXCEPT !.accepted = TRUE]]
            /\ UNCHANGED <<_detect_retry, _loop_retry_age, _last_sent_cmd,
                           _scan_step, ret, lp, af, gm>>
    /\ UNCHANGED <<env, last_fail, aux>>

(* --------------------------- stop() ------------------------------------ *)
\* The motion and gripper commands thread t has issued since it last read
\* the cancellation flag: those of its last step, which reads the flag
\* before anything else.  A stop() that falls between that read and the
\* commands is the step followed by Stop.
Burst(t) ==
    IF pc[t] = "vs" THEN IF lp[t].sent THEN 1 ELSE 0
    ELSE IF pc[t] = "af" \/ (pc[t] = "sm" /\ current_state = "VLM_CHECK")
    THEN Len(af[t].sent)
    ELSE IF pc[t] = "sm" /\ current_state = "AUTO_FOCUS" /\ gh[t].scan # <<>>
    THEN 1
    ELSE IF pc[t] = "gm" /\ gm[t].elapsed = 0 THEN 1
    ELSE 0

\* the observations after a call of stop(): where the invocation was, and
\* the commands it may have issued after the flag was set (no step issues
\* a command once it has read the flag set)
StopSeen ==
    [t \in Threads |->
       IF gh[t].accepted /\ pc[t] \notin {"idle", "done"}
          /\ gh[t].stop_pc = "none"
       THEN [gh[t] EXCEPT !.stop_pc = pc[t], !.stop_state = current_state,
                          !.after = Burst(t)]
       ELSE gh[t]]

\* The observation records where each running invocation was when the flag
\* was first set.
Stop ==
    /\ env.stop
    /\ ~cancel_token
    /\ cancel_token' = TRUE
    /\ gh' = StopSeen
    /\ UNCHANGED <<is_running, current_state, GRASP_DEPTH, _detect_retry,
                   _loop_retry_age, _last_sent_cmd, _scan_step,
                   pc, success, ret, lp, af, gm, calls, env, last_fail, aux>>

(* --------------------- the state-machine loop -------------------------- *)
\* while not self.cancel_token.is_set(): the flag is set, the loop ends
SM_Cancelled(t) ==
    /\ pc[t] = "sm"
    /\ cancel_token
    /\ pc' = [pc EXCEPT ![t] = "finally"]
    /\ af' = [af EXCEPT ![t] = AfIdle]
    /\ UNCHANGED <<ctl, success, ret, lp, gm, gh, calls, env, last_fail, aux>>

SM_Idle(t) ==
    /\ pc[t] = "sm"
    /\ ~cancel_token
    /\ current_state = "IDLE"
    /\ current_state' = "DETECT"
    /\ _loop_retry_age' = Adv(_loop_retry_age, SM_SLEEP)
    /\ gh' = [gh EXCEPT ![t].acted = TRUE]
    /\ UNCHANGED <<is_running, cancel_token, GRASP_DEPTH, _detect_retry,
                   _last_sent_cmd, _scan_step, pc, success, ret, lp, af, gm,
                   calls, env, last_fail, aux>>

\* find_target_object on the current detection list
SM_Detect(t) ==
    /\ pc[t] = "sm"
    /\ ~cancel_token
    /\ current_state = "DETECT"
    /\ \E det \in env.det :
         IF det # NOPOS
         THEN /\ current_state' = "VISUAL_SERVO"
              /\ _loop_retry_age' = Adv(_loop_retry_age, SM_SLEEP)
              /\ gh' = [gh EXCEPT ![t].acted = TRUE]
              /\ UNCHANGED pc
         ELSE /\ pc' = [pc EXCEPT ![t] = "detect_wait"]
              /\ gh' = [gh EXCEPT ![t].acted = TRUE,
                                  ![t].misses = gh[t].misses + 1]
              /\ UNCHANGED <<current_state, _loop_retry_age>>
    /\ UNCHANGED <<is_running, cancel_token, GRASP_DEPTH, _detect_retry,
                   _last_sent_cmd, _scan_step, success, ret, lp, af, gm,
                   calls, env, last_fail, aux>>

\* retry_count >= 3
DetectExhausted == _detect_retry >= DETECT_RETRIES

\* if self.cancel_token.wait(1.0): break, then the retry count
DetectWait(t) ==
    /\ pc[t] = "detect_wait"
    /\ IF cancel_token
       THEN /\ pc' = [pc EXCEPT ![t] = "finally"]
            /\ UNCHANGED <<current_state, _detect_retry, _loop_retry_age, gh>>
       ELSE /\ pc' = [pc EXCEPT ![t] = "sm"]
            /\ _loop_retry_age' = Adv(_loop_retry_age, DETECT_WAIT + SM_SLEEP)
            /\ IF DetectExhausted
               THEN /\ current_state' = "FAIL"
                    /\ gh' = [gh EXCEPT
                                ![t].cause = "detect",
                                ![t].fail_misses = gh[t].misses,
                                ![t].diverged =
                                    @ \/ gh[t].misses <= DETECT_RETRIES]
                    /\ UNCHANGED _detect_retry
               ELSE /\ _detect_retry' = _detect_retry + 1
                    /\ gh' = [gh EXCEPT
                                ![t].diverged =
                                    @ \/ gh[t].misses > DETECT_RETRIES]
                    /\ UNCHANGED current_state
    /\ UNCHANGED <<is_running, cancel_token, GRASP_DEPTH, _last_sent_cmd,
                   _scan_step, success, ret, lp, af, gm, calls, env, last_fail, aux>>

(* ------------------------- driver failures ---------------------------- *)
\* except Exception: success = False, then the finally block; the state of
\* the machine stays where the exception found it
RaiseFrom(t, g) ==
    /\ pc' = [pc EXCEPT ![t] = "finally"]
    /\ success' = [success EXCEPT ![t] = FALSE]
    /\ gh' = [gh EXCEPT ![t] = [g EXCEPT !.raised = TRUE]]
    /\ lp' = [lp EXCEPT ![t] = LpIdle]
    /\ af' = [af EXCEPT ![t] = AfIdle]

Raise(t) == RaiseFrom(t, gh[t])

(* ------------------------- _visual_servo_loop -------------------------- *)
\* elif self.current_state == ServoState.VISUAL_SERVO: the loop is entered
ServoEnter(t) ==
    /\ pc[t] = "sm"
    /\ ~cancel_token
    /\ current_state = "VISUAL_SERVO"
    /\ pc' = [pc EXCEPT ![t] = "vs"]
    /\ lp' = [lp EXCEPT ![t] = LpIdle]
    /\ gh' = [gh EXCEPT ![t].misses = 0]
    /\ UNCHANGED <<ctl, success, ret, af, gm, calls, env, last_fail, aux>>

\* a loop without a deadline
TimedOutNever(elapsed) == FALSE

\* time.time() - start_time > timeout
TimedOut(elapsed) == elapsed > TIMEOUT
\* elapsed_retry > 2.0
LostExpired(age) == age > LOST_GRACE
\* an alignment test with the threshold of the slow speed tier
XYAlignedCoarse(ee, goal) ==
    Sq(ee[1] - goal[1]) + Sq(ee[2] - goal[2]) < Sq(SPEED_SLOW_BELOW)

\* xy_error < self.XY_THRESHOLD, on squares
XYAligned(ee, goal) ==
    Sq(ee[1] - goal[1]) + Sq(ee[2] - goal[2]) < Sq(XY_THRESHOLD)
ZError(ee, goal) == Abs(ee[3] - goal[3])
\* a test that accepts the threshold itself
ZReachedLoose(z_error) == z_error <= Z_THRESHOLD

\* z_error < self.Z_THRESHOLD
ZReached(z_error) == z_error < Z_THRESHOLD
ApproachGoal(tp) == <<tp[1], tp[2], tp[3] + APPROACH_HEIGHT>>
DescendGoal(tp) == <<tp[1], tp[2], tp[3] + GRASP_DEPTH>>
Goal(phase, tp) == IF phase = "APPROACH" THEN ApproachGoal(tp)
                   ELSE DescendGoal(tp)
Dist2(a, b) == Sq(a[1] - b[1]) + Sq(a[2] - b[2]) + Sq(a[3] - b[3])
\* speed tiers on total_error
SpeedTier(ee, goal) ==
    IF Dist2(ee, goal) < Sq(SPEED_SLOW_BELOW) THEN SPEED_SLOW
    ELSE IF Dist2(ee, goal) < Sq(SPEED_MID_BELOW) THEN SPEED_MID
    ELSE SPEED_FAST
\* a controller with twice the unit gain: it lands as far beyond the goal
\* as it was before it
CmdOvershoot(ee, goal) ==
    <<ee[1] + (goal[1] - ee[1]) * 2, ee[2] + (goal[2] - ee[2]) * 2,
      ee[3] + (goal[3] - ee[3]) * 2, SpeedTier(ee, goal)>>

\* P-control: current + error * GAIN, with the speed
Cmd(ee, goal) ==
    <<ee[1] + ((goal[1] - ee[1]) * GAIN_NUM) \div GAIN_DEN,
      ee[2] + ((goal[2] - ee[2]) * GAIN_NUM) \div GAIN_DEN,
      ee[3] + ((goal[3] - ee[3]) * GAIN_NUM) \div GAIN_DEN,
      SpeedTier(ee, goal)>>
\* a filter that takes commands within the slow tier's radius as equal
DedupedCoarse(cmd, last) ==
    /\ last # <<>>
    /\ Dist2(cmd, last) < Sq(SPEED_SLOW_BELOW)
    /\ cmd[4] = last[4]

\* dist < 0.1 and speed == ls, against the last command sent
Deduped(cmd, last) ==
    /\ last # <<>>
    /\ Dist2(cmd, last) < Sq(DEDUP_DIST)
    /\ cmd[4] = last[4]

\* get_ee_position(): the pose of the ideal actuator, or any pose of the
\* environment
EeReads == IF env.ideal THEN {arm} ELSE env.ee
\* the ideal actuator reaches the point of a command it is sent; another
\* actuator is not tracked
Moved(cmd) == IF env.ideal THEN <<cmd[1], cmd[2], cmd[3]>> ELSE arm

\* the loop returns r to the state machine, which makes its transition and
\* sleeps; tracker is the age of _loop_retry_start the loop leaves behind
ServoReturn(t, r, tracker, g) ==
    /\ pc' = [pc EXCEPT ![t] = "sm"]
    /\ current_state' = IF r THEN "AUTO_FOCUS" ELSE "FAIL"
    /\ lp' = [lp EXCEPT ![t] = LpIdle]
    /\ gh' = [gh EXCEPT ![t] = g]
    /\ _loop_retry_age' = Adv(tracker, SM_SLEEP)
    /\ UNCHANGED <<_last_sent_cmd, success, af>>

\* one pass of the loop body, from the test of the cancellation flag to the
\* end of the sleep that closes the tick; on success the loop sleeps 0.3 s
\* and returns, and ee2 is the pose at the end of that pause, which the
\* code does not read
ServoTick(t) ==
    /\ pc[t] = "vs"
    /\ scans' = scans
    /\ \E ee \in EeReads, det \in env.det_loop, delay \in env.delays,
          ee2 \in EeReads, o \in env.drv :
         LET e == lp[t].elapsed
             g == gh[t]
             tracker == IF _loop_retry_age = NONE THEN 0 ELSE _loop_retry_age
             ep == IF lp[t].ep = NONE THEN 0 ELSE lp[t].ep
             phase2 == IF lp[t].phase = "APPROACH"
                          /\ XYAligned(ee, ApproachGoal(det))
                       THEN "DESCEND" ELSE lp[t].phase
             goal == Goal(lp[t].phase, det)
             z == ZError(ee, goal)
             cmd == Cmd(ee, goal)
             skip == Deduped(cmd, _last_sent_cmd)
             d == Dur(delay, LOOP_PERIOD)
         IN
         IF cancel_token
         THEN /\ ServoReturn(t, FALSE, _loop_retry_age,
                             [g EXCEPT !.cause = "cancel"])
              /\ UNCHANGED arm
         ELSE IF TimedOut(e)
         THEN /\ ServoReturn(t, FALSE, _loop_retry_age,
                             [g EXCEPT !.cause = "timeout"])
              /\ UNCHANGED arm
         ELSE IF o = "raise_read"
         THEN Raise(t) /\ UNCHANGED <<current_state, _loop_retry_age,
                                      _last_sent_cmd, arm>>
         ELSE IF det = NOPOS
         THEN IF LostExpired(tracker)
              THEN /\ ServoReturn(t, FALSE, tracker,
                          [g EXCEPT !.cause = "lost", !.lost_ep = ep,
                                    !.diverged = @ \/ ~LostExpired(ep)])
                   /\ UNCHANGED arm
              ELSE /\ delay = "exact" => e < MaxTicks * LOOP_PERIOD
                   /\ UNCHANGED arm
                   /\ _loop_retry_age' =
                          Adv(tracker, Dur(delay, LOST_SLEEP))
                   /\ lp' = [lp EXCEPT
                               ![t].elapsed =
                                   AdvElapsed(e, Dur(delay, LOST_SLEEP)),
                               ![t].ep = Adv(ep, Dur(delay, LOST_SLEEP)),
                               ![t].cmd = <<>>, ![t].sent = FALSE]
                   /\ gh' = [gh EXCEPT ![t].late = @ \/ e > TIMEOUT,
                                       ![t].diverged = @ \/ LostExpired(ep)]
                   /\ UNCHANGED <<pc, current_state, _last_sent_cmd,
                                  success, af>>
         ELSE IF lp[t].phase = "DESCEND" /\ ZReached(z)
         THEN /\ ServoReturn(t, TRUE, NONE,
                    [g EXCEPT !.late = @ \/ e > TIMEOUT, !.z_det = z,
                              !.xy_det = Sq(ee[1] - goal[1])
                                         + Sq(ee[2] - goal[2]),
                              !.z_settle = ZError(ee2, goal)])
              /\ UNCHANGED arm
         ELSE IF o = "raise_cmd" /\ ~skip
         THEN /\ Raise(t)
              /\ _loop_retry_age' = NONE
              /\ UNCHANGED <<current_state, _last_sent_cmd, arm>>
         ELSE /\ delay = "exact" => e < MaxTicks * LOOP_PERIOD
              /\ _loop_retry_age' = NONE
              /\ _last_sent_cmd' = IF skip THEN _last_sent_cmd ELSE cmd
              /\ arm' = IF skip THEN arm ELSE Moved(cmd)
              /\ lp' = [lp EXCEPT ![t].phase = phase2,
                                  ![t].elapsed = AdvElapsed(e, d),
                                  ![t].ep = NONE,
                                  ![t].cmd = cmd, ![t].sent = ~skip]
              /\ gh' = [gh EXCEPT
                          ![t].late = @ \/ e > TIMEOUT,
                          ![t].cmd_failed = @ \/ (o = "false" /\ ~skip),
                          ![t].f_cmd = IF Deduped(cmd, g.f_cmd)
                                       THEN g.f_cmd ELSE cmd,
                          ![t].diverged = @ \/ (skip # Deduped(cmd, g.f_cmd))]
              /\ UNCHANGED <<pc, current_state, success, af>>
    /\ UNCHANGED <<is_running, cancel_token, GRASP_DEPTH, _detect_retry,
                   _scan_step, ret, gm, calls, env, last_fail, outer>>

(* ------------------------- _execute_auto_focus ------------------------- *)
\* elif self.current_state == ServoState.AUTO_FOCUS: the locals are set up
\* with the first reading of the focus score and the start pose
SM_AutoFocus(t) ==
    /\ pc[t] = "sm"
    /\ ~cancel_token
    /\ current_state = "AUTO_FOCUS"
    /\ \E score \in env.focus, o \in env.drv, start \in EeReads :
         IF o = "raise_read"
         THEN Raise(t)
         ELSE /\ af' = [af EXCEPT ![t] = [AfIdle EXCEPT !.best = score,
                                                        !.start = start]]
              /\ pc' = [pc EXCEPT ![t] = "af"]
              /\ gh' = [gh EXCEPT ![t].z_det = NONE, ![t].z_settle = NONE,
                                  ![t].xy_det = NONE,
                                  ![t].scan = <<>>]
              /\ UNCHANGED <<success, lp>>
    /\ UNCHANGED <<ctl, ret, gm, calls, env, last_fail, aux>>

\* abs(target_z - start_pos['z']) > max_range
AFOutOfRange(off) == Abs(off) > AF_RANGE
\* new_score > best_score + 10.0
AFImproved(new, best) == new > best + AF_IMPROVE
\* a loop of two more iterations
AFLastLate(i) == i + 1 >= AF_ITER + 2

\* for i in range(10): iteration i is the last one
AFLast(i) == i + 1 >= AF_ITER
\* the point start_pos['x'], start_pos['y'], start_pos['z'] + off
AFPoint(start, off) == <<start[1], start[2], start[3] + off>>

\* the ideal actuator after the commands of an iteration
AFMoved(sent) == IF sent = <<>> THEN arm ELSE Moved(sent[Len(sent)])

\* both outcomes of _execute_auto_focus lead to VLM_CHECK; a is what the
\* routine leaves behind, kept for observation until the next step of the
\* state machine
AFReturn(t, failed, a) ==
    /\ pc' = [pc EXCEPT ![t] = "sm"]
    /\ current_state' = "VLM_CHECK"
    /\ af' = [af EXCEPT ![t] = a]
    /\ arm' = AFMoved(a.sent)
    /\ gh' = [gh EXCEPT ![t].cmd_failed = @ \/ failed]
    /\ UNCHANGED <<success, lp>>

\* the end of an iteration that does not return: the loop goes on, or it
\* is over after its last iteration
AFNext(t, failed, a) ==
    IF AFLast(af[t].i)
    THEN AFReturn(t, failed, [a EXCEPT !.done = "end"])
    ELSE /\ af' = [af EXCEPT ![t] = a]
         /\ arm' = AFMoved(a.sent)
         /\ gh' = [gh EXCEPT ![t].cmd_failed = @ \/ failed]
         /\ UNCHANGED <<pc, current_state, success, lp>>

\* one iteration of the hill climb, from the test of the cancellation flag
AFStep(t) ==
    /\ pc[t] = "af"
    /\ \E new \in env.focus, o \in env.drv :
         LET a == af[t]
             target_off == a.off + AF_STEP * a.dir
             target == AFPoint(a.start, target_off)
             failed == o = "false"
             seen == [a EXCEPT !.i = @ + 1]
         IN
         IF cancel_token
         THEN AFReturn(t, FALSE, [a EXCEPT !.done = "cancel", !.sent = <<>>])
         ELSE IF AFOutOfRange(target_off)
         THEN AFReturn(t, FALSE, [a EXCEPT !.done = "end", !.sent = <<>>])
         ELSE IF o = "raise_cmd"
         THEN Raise(t) /\ UNCHANGED <<current_state, arm>>
         ELSE IF AFImproved(new, a.best)
         THEN AFNext(t, failed,
                     [seen EXCEPT !.best = new, !.off = target_off,
                                  !.best_off = target_off,
                                  !.sent = <<target>>,
                                  !.last_z = target[3]])
         ELSE IF a.dir = 1
         THEN AFNext(t, failed,
                     [seen EXCEPT !.dir = 0 - 1, !.off = 0,
                                  !.sent = <<target, a.start>>,
                                  !.last_z = a.start[3]])
         ELSE AFReturn(t, failed,
                       [seen EXCEPT !.sent = <<target, AFPoint(a.start, a.off)>>,
                                    !.last_z = a.start[3] + a.off,
                                    !.done = "end"])
    /\ UNCHANGED <<is_running, cancel_token, GRASP_DEPTH, _detect_retry,
                   _loop_retry_age, _last_sent_cmd, _scan_step,
                   ret, gm, calls, env, last_fail, outer, scans>>

(* --------------------------- _execute_vlm_check ------------------------ *)
\* current_score > 50.0
\* a judgment that trusts every image
ConfidentAlways(score) == score >= 0

Confident(score) == score > VLM_CONFIDENT_ABOVE

\* the observation keeps the focus score that was judged
SM_VlmCheck(t) ==
    /\ pc[t] = "sm"
    /\ ~cancel_token
    /\ current_state = "VLM_CHECK"
    /\ \E score \in env.focus :
         /\ current_state' = IF Confident(score) THEN "GRASP"
                             ELSE "SCANNING"
         /\ gh' = [gh EXCEPT ![t].score = score]
    /\ af' = [af EXCEPT ![t] = AfIdle]
    /\ UNCHANGED <<is_running, cancel_token, GRASP_DEPTH, _detect_retry,
                   _loop_retry_age, _last_sent_cmd, _scan_step, pc,
                   success, ret, lp, gm, calls, env, last_fail, aux>>

(* ------------------------ _execute_active_scanning --------------------- *)
\* a step that toggles between two directions
ScanToggle(step) == IF step = 1 THEN 0 ELSE 1

\* self._scan_step = (self._scan_step + 1) % 4, from 0 when the attribute
\* does not exist yet
NextScanStep(step) == ((IF step = NONE THEN 0 ELSE step) + 1) % 4

\* 0: +X, 1: -X, 2: +Y, 3: -Y, by offset_amount
ScanMove(step) ==
    IF step = 0 THEN <<SCAN_OFFSET, 0>>
    ELSE IF step = 1 THEN <<0 - SCAN_OFFSET, 0>>
    ELSE IF step = 2 THEN <<0, SCAN_OFFSET>>
    ELSE <<0, 0 - SCAN_OFFSET>>
\* target_x, target_y, current_pos['z']
ScanPoint(cur, step) ==
    <<cur[1] + ScanMove(step)[1], cur[2] + ScanMove(step)[2], cur[3]>>
\* the moves of the last four passes that commanded one
Scanned(move) ==
    IF Len(scans) < 4 THEN Append(scans, move)
    ELSE Append(Tail(scans), move)

\* one pass: the step, the pose read, the command, the sleep, and the
\* transition of the state machine; the observation keeps the pose read
\* and the points commanded until the next step of the state machine
SM_Scanning(t) ==
    /\ pc[t] = "sm"
    /\ ~cancel_token
    /\ current_state = "SCANNING"
    /\ _scan_step' = NextScanStep(_scan_step)
    /\ \E o \in env.drv, cur \in EeReads :
         LET point == ScanPoint(cur, NextScanStep(_scan_step)) IN
         IF o = "raise_read"
         THEN Raise(t) /\ UNCHANGED <<current_state, motion>>
         ELSE IF o = "raise_cmd"
         THEN /\ Raise(t)
              /\ scans' = Scanned(ScanMove(NextScanStep(_scan_step)))
              /\ UNCHANGED <<current_state, arm>>
         ELSE /\ current_state' = "AUTO_FOCUS"
              /\ arm' = Moved(point)
              /\ scans' = Scanned(ScanMove(NextScanStep(_scan_step)))
              /\ gh' = [gh EXCEPT
                          ![t].f_scan = NextScanStep(@),
                          ![t].cmd_failed = @ \/ o = "false",
                          ![t].scan = <<cur, <<point>>>>,
                          ![t].diverged =
                              @ \/ NextScanStep(_scan_step)
                                      # NextScanStep(gh[t].f_scan)]
              /\ UNCHANGED <<pc, success, lp, af>>
    /\ UNCHANGED <<is_running, cancel_token, GRASP_DEPTH, _detect_retry,
                   _loop_retry_age, _last_sent_cmd,
                   ret, gm, calls, env, last_fail, outer>>

(* ------------------------------- GRASP --------------------------------- *)
\* move_gripper(0), then the locals of the monitor; the observation
\* records that the close command was issued
SM_Grasp(t) ==
    /\ pc[t] = "sm"
    /\ ~cancel_token
    /\ current_state = "GRASP"
    /\ \E g \in env.grip_mon, o \in env.drv :
         IF o = "raise_cmd"
         THEN /\ RaiseFrom(t, [gh[t] EXCEPT !.closed = TRUE])
              /\ UNCHANGED gm
         ELSE /\ gm' = [gm EXCEPT ![t] = [GmIdle EXCEPT !.last = g]]
              /\ pc' = [pc EXCEPT ![t] = "gm"]
              /\ gh' = [gh EXCEPT ![t].cmd_failed = @ \/ o = "false",
                                  ![t].closed = TRUE]
              /\ UNCHANGED <<success, lp, af>>
    /\ UNCHANGED <<ctl, ret, calls, env, last_fail, aux>>

\* a test that takes every change of the aperture as none
GripStillCoarse(cur, last) == Abs(cur - last) < GRASP_WINDOW

\* abs(current_val - last_gripper_val) < 0.0005
GripStill(cur, last) == Abs(cur - last) < GRASP_EPS

\* one pass of the monitoring loop: the test of the window, the test of
\* the flag, the sample, the test of the count, the sleep; the locals of
\* the pass that ends the loop are kept for observation until the next
\* step
GraspMonitor(t) ==
    /\ pc[t] = "gm"
    /\ \E cur \in env.grip_mon, delay \in env.delays :
         LET m == gm[t]
             stable2 == IF GripStill(cur, m.last) THEN m.stable + 1 ELSE 0
         IN
         IF ~(m.elapsed < GRASP_WINDOW) \/ cancel_token
         THEN /\ pc' = [pc EXCEPT ![t] = "gm_post"]
              /\ UNCHANGED gm
         ELSE IF stable2 >= GRASP_STABLE
         THEN /\ pc' = [pc EXCEPT ![t] = "gm_post"]
              /\ gm' = [gm EXCEPT ![t].last = cur, ![t].stable = stable2]
         ELSE /\ gm' = [gm EXCEPT ![t] =
                          [elapsed |-> Min(m.elapsed + Dur(delay, GRASP_SAMPLE),
                                           GRASP_WINDOW),
                           last |-> cur, stable |-> stable2]]
              /\ UNCHANGED pc
    /\ UNCHANGED <<ctl, success, ret, lp, af, gh, calls, env, last_fail, aux>>

\* a monitor that goes on to the verification without testing the flag
GraspPostBlind(t) ==
    /\ pc[t] = "gm_post"
    /\ pc' = [pc EXCEPT ![t] = "gverify"]
    /\ gm' = [gm EXCEPT ![t] = GmIdle]
    /\ UNCHANGED <<ctl, success, ret, lp, af, gh, calls, env, last_fail, aux>>

\* if self.cancel_token.is_set(): break, after the monitoring loop
GraspPost(t) ==
    /\ pc[t] = "gm_post"
    /\ pc' = [pc EXCEPT ![t] = IF cancel_token THEN "finally" ELSE "gverify"]
    /\ gm' = [gm EXCEPT ![t] = GmIdle]
    /\ UNCHANGED <<ctl, success, ret, lp, af, gh, calls, env, last_fail, aux>>

\* a verification that accepts the threshold itself
GraspedLoose(aperture) == aperture >= GRASP_MIN

\* current_gripper > 0.005
Grasped(aperture) == aperture > GRASP_MIN

\* the verification read; success is latched, or the machine goes to FAIL
GraspVerify(t) ==
    /\ pc[t] = "gverify"
    /\ \E g \in env.grip_ver :
         /\ success' = [success EXCEPT ![t] = Grasped(g)]
         /\ current_state' = IF Grasped(g) THEN current_state ELSE "FAIL"
         /\ gh' = [gh EXCEPT ![t].verify = g,
                             ![t].cause = IF Grasped(g) THEN @ ELSE "empty"]
    /\ pc' = [pc EXCEPT ![t] = "finally"]
    /\ UNCHANGED <<is_running, cancel_token, GRASP_DEPTH, _detect_retry,
                   _loop_retry_age, _last_sent_cmd, _scan_step,
                   ret, lp, af, gm, calls, env, last_fail, aux>>

\* the terminal states end the loop (SUCCESS is never entered by the code)
SM_Terminal(t) ==
    /\ pc[t] = "sm"
    /\ ~cancel_token
    /\ current_state \in {"SUCCESS", "FAIL"}
    /\ pc' = [pc EXCEPT ![t] = "finally"]
    /\ UNCHANGED <<ctl, success, ret, lp, af, gm, gh, calls, env, last_fail, aux>>

(* ------------------------- finally and return -------------------------- *)
\* if self.cancel_token.is_set() and not success: success = False
FinalResult(t) == IF cancel_token /\ ~success[t] THEN FALSE ELSE success[t]

\* a release made only at the end of a successful sequence
FinalRunningUnlessSuccess(t) == ~success[t]

\* finally: self.is_running = False, on every path out of the try block
FinalRunning(t) == FALSE

\* self.is_running = False ... return success; the observation records the
\* result, the final state and, for a failure, its cause
Finally(t) ==
    /\ pc[t] = "finally"
    /\ is_running' = FinalRunning(t)
    /\ ret' = [ret EXCEPT ![t] = FinalResult(t)]
    /\ pc' = [pc EXCEPT ![t] = "done"]
    /\ gh' = [gh EXCEPT ![t].end_state = current_state]
    /\ UNCHANGED <<cancel_token, current_state, GRASP_DEPTH, _detect_retry,
                   _loop_retry_age, _last_sent_cmd, _scan_step,
                   success, lp, af, gm, calls, env, last_fail, aux>>

\* the caller has consumed the return value
FailCauses == {"timeout", "lost", "empty"}

Release(t) ==
    /\ pc[t] = "done"
    /\ pc' = [pc EXCEPT ![t] = "idle"]
    /\ ret' = [ret EXCEPT ![t] = FALSE]
    /\ success' = [success EXCEPT ![t] = FALSE]
    /\ gh' = [gh EXCEPT ![t] = GhIdle]
    /\ last_fail' = IF gh[t].accepted /\ ~ret[t] /\ gh[t].cause \in FailCauses
                    THEN <<gh[t].cause, gh[t].end_state>>
                    ELSE last_fail
    /\ UNCHANGED <<ctl, lp, af, gm, calls, env, aux>>

(* ------------------------- RobotController ----------------------------- *)
\* any(k in intent_lower for k in ["멈춰", "정지", "stop"])
IsStop(intent) == intent \in {"stop", "stop now"}
\* any(k in intent_lower for k in ["재개", "resume", "풀어", "unlock"])
IsResume(intent) == intent = "resume"

\* self.action_queue.put(item)
QueuePut(c, item) ==
    [c EXCEPT !.action_queue = Append(@, item),
              !.placed_locked = @ \/ c.safety_lock]

\* the grasp_intent part of on_intent_received
GraspPart(c, s) ==
    IF s.grasp_intent # "none" /\ c.last_grasp_intent # s.grasp_intent
    THEN QueuePut([c EXCEPT !.last_grasp_intent = s.grasp_intent],
                  <<"grasp", s.grasp_intent>>)
    ELSE c

\* broadcaster.publish("agent_thought", ...) inside the handler delivers the
\* snapshot again to on_intent_received; its action intent is now
\* last_intent, so only the grasp part runs
Redelivered(c, s) == GraspPart(c, s)

\* _handle_emergency_stop, after visual_servoing.stop(): the driver's
\* emergency stop, the queue cleared, the lock set
EmergencyStop(c, s) ==
    LET cleared == [c EXCEPT !.estop = TRUE, !.action_queue = <<>>]
        locked == [Redelivered(cleared, s) EXCEPT !.safety_lock = TRUE]
    IN Redelivered(locked, s)

\* does on_intent_received run the emergency stop on this snapshot
StopsOn(c, s) ==
    /\ s.action_intent # "none"
    /\ s.action_intent # c.last_intent
    /\ IsStop(s.action_intent)

\* on_intent_received(snapshot) of a running controller.  Under the lock
\* the call ends at the logging call of line 114 or 116 (logging is not a
\* name of the module), after the lock was opened for a resume keyword.
OnIntent(c, s) ==
    IF s.action_intent # "none" /\ s.action_intent # c.last_intent
    THEN LET c1 == [c EXCEPT !.last_intent = s.action_intent]
         IN IF IsStop(s.action_intent) THEN EmergencyStop(c1, s)
            ELSE IF c1.safety_lock
            THEN IF IsResume(s.action_intent)
                 THEN Redelivered([c1 EXCEPT !.safety_lock = FALSE], s)
                 ELSE c1
            ELSE GraspPart(QueuePut(c1, <<"action", s.action_intent>>), s)
    ELSE GraspPart(c, s)

\* broadcaster.publish(key, value): latest_state is updated and the
\* snapshot handed to the subscriber
Publish(key, value) ==
    /\ rc.published < MaxPublish
    /\ \/ key = "action_intent" /\ value \in env.intents
       \/ key = "grasp_intent" /\ value \in env.grasps
    /\ LET s == [snap EXCEPT ![key] = value]
           ev == IF key = "action_intent" /\ IsStop(value)
                 THEN IF StopsOn(rc, s) THEN "stop" ELSE "stop_ignored"
                 ELSE "other"
       IN /\ snap' = s
          /\ rc' = [OnIntent(rc, s) EXCEPT
                      !.published = @ + 1, !.ev = ev,
                      !.estop = StopsOn(rc, s),
                      !.stale = @ \/ (StopsOn(rc, s) /\ rc.item # <<>>)]
          /\ cancel_token' = (cancel_token \/ StopsOn(rc, s))
          /\ gh' = IF StopsOn(rc, s) /\ ~cancel_token THEN StopSeen ELSE gh
    /\ UNCHANGED <<is_running, current_state, GRASP_DEPTH, _detect_retry,
                   _loop_retry_age, _last_sent_cmd, _scan_step, pc, success,
                   ret, lp, af, gm, env, calls, last_fail, motion, percept>>

\* _worker_loop: item = self.action_queue.get(timeout=0.5); item is the
\* item the worker holds, and stale observes that an emergency stop has
\* returned since the worker took it
WorkerGet ==
    /\ rc.worker = "idle"
    /\ rc.action_queue # <<>>
    /\ rc' = [rc EXCEPT !.worker = "got", !.action_queue = Tail(@),
                        !.item = Head(rc.action_queue)]
    /\ UNCHANGED <<ctl, pc, success, ret, lp, af, gm, env, gh, calls,
                   last_fail, motion, snap, percept>>

\* _execute_grasp, and _execute on a pick intent with an object in sight,
\* call visual_servoing.execute_approach_and_grasp
StartsServo(item) ==
    item[1] = "grasp" \/ (item[1] = "action" /\ item[2] = "pick")

\* _execute or _execute_grasp begins; where the worker is the caller, the
\* item that starts the servo routine makes the accepted call of thread 1
WorkerBegin ==
    /\ rc.worker = "got"
    /\ rc' = [rc EXCEPT !.worker = "exec",
                        !.started_locked = @ \/ rc.safety_lock]
    /\ IF env.linked /\ StartsServo(rc.item)
       THEN /\ pc[1] = "idle"
            /\ calls < env.budget
            /\ calls' = calls + 1
            /\ is_running' = TRUE
            /\ cancel_token' = FALSE
            /\ current_state' = "IDLE"
            /\ \E gz \in env.offsets : GRASP_DEPTH' = gz
            /\ success' = [success EXCEPT ![1] = FALSE]
            /\ pc' = [pc EXCEPT ![1] = "sm"]
            /\ gh' = [gh EXCEPT ![1] = [GhIdle EXCEPT !.accepted = TRUE]]
            /\ UNCHANGED <<_detect_retry, _loop_retry_age, _last_sent_cmd,
                           _scan_step>>
       ELSE UNCHANGED <<ctl, pc, success, gh, calls>>
    /\ UNCHANGED <<ret, lp, af, gm, env, last_fail, motion, snap, percept>>

\* _execute or _execute_grasp returns, after the servo routine where it
\* was called; task_done
WorkerEnd ==
    /\ rc.worker = "exec"
    /\ pc[1] = "idle"
    /\ rc' = [rc EXCEPT !.worker = "idle", !.item = <<>>, !.stale = FALSE]
    /\ UNCHANGED <<ctl, pc, success, ret, lp, af, gm, env, gh, calls,
                   last_fail, motion, snap, percept>>

(* ------------------------- shared/filters.py --------------------------- *)
\* Lengths in 0.01 cm, variances in 0.0001 of their unit.  An estimate or a
\* covariance that is not representable is rounded down.

\* KalmanFilter.__init__; fed, was_reset and returned observe: the
\* measurements handed to update, whether reset was called, and what the
\* last update returned
KfInit ==
    [state_estimate |-> 0, post_error_cov |-> COV_ONE,
     is_initialized |-> FALSE, fed |-> {}, was_reset |-> FALSE,
     returned |-> 0]

\* update, second part: predict, then correct by the Kalman gain
\*   kalman_gain = prior_error_cov / (prior_error_cov + measure_var)
KalmanBlend(f, measurement) ==
    LET prior_estimate == f.state_estimate
        prior_error_cov == f.post_error_cov + PROCESS_VAR
        estimate ==
            prior_estimate
            + (prior_error_cov * (measurement - prior_estimate))
              \div (prior_error_cov + MEASURE_VAR)
    IN [f EXCEPT !.state_estimate = estimate,
                 !.post_error_cov = (MEASURE_VAR * prior_error_cov)
                                    \div (prior_error_cov + MEASURE_VAR),
                 !.is_initialized = TRUE,
                 !.fed = @ \cup {measurement},
                 !.returned = estimate]

\* an update that smooths from the very first measurement
KalmanUpdateSmooth(f, measurement) == KalmanBlend(f, measurement)

\* KalmanFilter.update(measurement)
KalmanUpdate(f, measurement) ==
    IF ~f.is_initialized
    THEN [f EXCEPT !.state_estimate = measurement, !.is_initialized = TRUE,
                   !.fed = @ \cup {measurement}, !.returned = measurement]
    ELSE KalmanBlend(f, measurement)

\* a reset that keeps the uncertainty
KalmanResetKeepsCov(f, initial_value) ==
    [f EXCEPT !.state_estimate = initial_value, !.was_reset = TRUE]

\* KalmanFilter.reset(initial_value)
KalmanReset(f, initial_value) ==
    [f EXCEPT !.state_estimate = initial_value, !.post_error_cov = COV_ONE,
              !.was_reset = TRUE]

\* filter_x, filter_y, filter_z and the coordinate each one filters
Axes == {"filter_x", "filter_y", "filter_z"}
Coord(a) == IF a = "filter_x" THEN 1 ELSE IF a = "filter_y" THEN 2 ELSE 3

(* ------------------ sensor/projection/pybullet_projection.py ----------- *)
\* Depths in 0.0001 m, which is 0.01 cm.  The camera looks from
\* (0.5, 0, 0.5) m at the origin with up (0, 0, 1): in the world frame its
\* right vector is (0, 1, 0), its up vector (-c, 0, c) and its backward
\* vector (c, 0, c), c = cos 45 degrees.

\* pixel_to_view_space(pixel_x, pixel_y, depth_m), in 0.01 cm
PixelToViewSpace(pixel_x, pixel_y, depth_m) ==
    <<((pixel_x - CX) * depth_m * 100) \div FX_E2,
      (0 - ((pixel_y - CY) * depth_m * 100)) \div FY_E2,
      0 - depth_m>>

\* pixel_to_3d(pixel_x, pixel_y, depth_m): CAM_TO_WORLD_MAT @ view_pos
PixelTo3D(pixel_x, pixel_y, depth_m) ==
    LET view == PixelToViewSpace(pixel_x, pixel_y, depth_m)
    IN <<EYE_X + ((0 - COS45_E4) * view[2] + COS45_E4 * view[3]) \div 10000,
         view[1],
         EYE_Z + (COS45_E4 * view[2] + COS45_E4 * view[3]) \div 10000>>

\* calculate_planar_depth(x, y, z): minus the z of the point in view space
CalculatePlanarDepth(g) ==
    0 - ((COS45_E4 * (g[1] - EYE_X) + COS45_E4 * (g[3] - EYE_Z)) \div 10000)

(* ---------------- sensor/implementations/pybullet_vision.py ------------ *)
\* client.latest_state['object'] as the simulation server last sent it:
\* never sent; exists false; exists true at pos; not a mapping
Gt(kind, pos) == [kind |-> kind, pos |-> pos]
GtOrigin == <<0, 0, 0>>
GtFar == <<3000, 0, 0>>
GroundTruths ==
    {Gt("absent", NOPOS), Gt("gone", NOPOS), Gt("exists", GtOrigin),
     Gt("exists", GtFar), Gt("malformed", NOPOS)}

\* dist_sq < 400.0 (cm squared); a difference of 20 cm on one axis alone
\* already makes the sum reach 400
Near(a, b) ==
    /\ \A i \in 1..3 : Abs(a[i] - b[i]) < 2000
    /\ Sq(a[1] - b[1]) + Sq(a[2] - b[2]) + Sq(a[3] - b[3])
       < NEAR_SQ * 10000

\* what pixel_to_cm returns and leaves in the filters
PixelResult(out, path, filters) ==
    [out |-> out, path |-> path, kf |-> filters]

\* the last line of pixel_to_cm: the three filters updated
Filtered(p, filters) ==
    LET f == [a \in Axes |-> KalmanUpdate(filters[a], p[Coord(a)])]
    IN PixelResult(<<f["filter_x"].returned, f["filter_y"].returned,
                     f["filter_z"].returned>>, "filter", f)

\* the oracle path: the observed pixel at the exact planar depth
Oracle(u, v, gt, filters) ==
    LET p == PixelTo3D(u, v, CalculatePlanarDepth(gt.pos))
    IN PixelResult(p, "oracle",
                   [a \in Axes |-> KalmanReset(filters[a], p[Coord(a)])])

\* PybulletVision.pixel_to_cm(u, v, depth_val) with the ground truth gt.
\* A latest_state['object'] that is not a mapping raises inside the try;
\* the except clause logs and falls through to the filters.
PixelToCm(u, v, depth_val, gt, filters) ==
    IF depth_val <= 0 THEN PixelResult(NOPOS, "invalid", filters)
    ELSE LET p == PixelTo3D(u, v, depth_val)
         IN IF gt.kind = "malformed" THEN Filtered(p, filters)
            ELSE IF gt.kind = "exists"
                 THEN IF Near(p, gt.pos) THEN Oracle(u, v, gt, filters)
                      ELSE Filtered(p, filters)
                 ELSE PixelResult(NOPOS, "phantom", filters)

\* PybulletVision.pixel_to_local_cm(u, v, depth_val)
PixelToLocalCm(u, v, depth_val) ==
    IF depth_val <= 0 THEN NOPOS ELSE PixelToViewSpace(u, v, depth_val)

\* a wrist conversion that smooths its point with the instance's filters
GripperDriverFiltered(u, v, depth_val, filters) ==
    Filtered(PixelToLocalCm(u, v, depth_val), filters)

\* self.drivers['gripper'].pixel_to_local_cm(u, v, depth_m): the driver
\* registered as 'gripper' is the PybulletVision instance registered as
\* 'main'; the call returns the view-space point and leaves the filters of
\* the instance as they are
GripperDriver(u, v, depth_val, filters) ==
    PixelResult(PixelToLocalCm(u, v, depth_val), "gripper", filters)

(* ------------------ project_gripper_camera_to_world -------------------- *)
\* rot_matrix @ p for rot_matrix = getMatrixFromQuaternion(orn); orn is
\* "identity", no rotation, or "down", half a turn about x
Rotate(orn, p) ==
    IF orn = "down" THEN <<p[1], 0 - p[2], 0 - p[3]>> ELSE p

\* captured_pose of the packet: position (0.01 cm) and orientation
Pose(pos, orn) == [pos |-> pos, orn |-> orn]
EeZero == <<0, 0, 0>>
EeHigh == <<2000, 0, 1500>>
Poses == {Pose(EeZero, "identity"), Pose(EeHigh, "identity"),
          Pose(EeHigh, "down")}

\* what _get_real_ee_state_via_shared_memory finds: no physics server
\* (None, None, None); p.connect raises (the two-element None, None); the
\* link state of the end effector
Mem(kind, pos, orn) == [kind |-> kind, pos |-> pos, orn |-> orn]
SharedMemory ==
    {Mem("none", NOPOS, "identity"), Mem("connect_raises", NOPOS, "identity"),
     Mem("state", EeZero, "down"), Mem("state", EeHigh, "down")}

\* diff > 0.05 (m): the reported and the fetched position disagree
Disagree(a, b) ==
    \/ \E i \in 1..3 : Abs(a[i] - b[i]) > POS_TOLERANCE
    \/ Sq(a[1] - b[1]) + Sq(a[2] - b[2]) + Sq(a[3] - b[3])
       > Sq(POS_TOLERANCE)

\* project_gripper_camera_to_world(point_view, ee_pos, ee_orn).  An
\* identity ee_orn is looked up in the shared memory; unpacking the
\* two-element result into three names raises ValueError.
ProjectGripperCameraToWorld(point_view, ee_pos, ee_orn, mem) ==
    LET need_fix == ee_orn = "identity"
        orn == IF need_fix /\ mem.kind = "state"
                  /\ ~Disagree(ee_pos, mem.pos)
               THEN mem.orn ELSE ee_orn
        p_local == <<0 - point_view[2], 0 - point_view[1],
                     0 - point_view[3]>>
        r == Rotate(orn, p_local)
    IN IF need_fix /\ mem.kind = "connect_raises"
       THEN [raised |-> TRUE, p |-> NOPOS]
       ELSE [raised |-> FALSE,
             p |-> <<r[1] + ee_pos[1], r[2] + ee_pos[2], r[3] + ee_pos[3]>>]

(* ------------------ sensor/perception/vision_bridge.py ----------------- *)
\* VisionBridge.__init__; direct observes a call of switch_source that
\* did not come from set_mode
BridgeInit(sim_mode) ==
    [sim_mode |-> sim_mode, current_source_key |-> "main",
     current_mode |-> "DEFAULT", direct |-> FALSE]

\* switch_source(source_key) on bridge b; drivers holds main and gripper
SwitchSourceOf(b, source_key) ==
    LET key == IF source_key = "realsense" THEN "main" ELSE source_key
    IN IF key \notin {"main", "gripper"} THEN b
       ELSE IF ~b.sim_mode /\ key = "gripper" THEN b
       ELSE [b EXCEPT !.current_source_key = key]

\* set_mode(mode)
SetMode(mode) ==
    /\ mode \in env.modes
    /\ bridge' = SwitchSourceOf([bridge EXCEPT !.current_mode = mode],
                                IF mode = "EXPLOITATION" THEN "gripper"
                                ELSE "main")
    /\ UNCHANGED <<ctl, pc, success, ret, lp, af, gm, env, gh, calls,
                   last_fail, motion, rc, snap, kf, vo, perception_data,
                   grasp_memory, gp>>

\* switch_source(source_key) called by the API server
SwitchSource(source_key) ==
    /\ source_key \in env.keys
    /\ bridge' = [SwitchSourceOf(bridge, source_key) EXCEPT !.direct = TRUE]
    /\ UNCHANGED <<ctl, pc, success, ret, lp, af, gm, env, gh, calls,
                   last_fail, motion, rc, snap, kf, vo, perception_data,
                   grasp_memory, gp>>

\* np.median and np.std of one or two samples
Median(s) == IF Len(s) = 1 THEN s[1] ELSE (s[1] + s[2]) \div 2
Std(s) == IF Len(s) = 1 THEN 0 ELSE Abs(s[1] - s[2]) \div 2

\* the samples of the region inside the plausible range
ValidDepths(roi) ==
    SelectSeq(roi, LAMBDA d : d > DEPTH_MIN /\ d < DEPTH_MAX)

\* the depth estimate of a detection: median + std of the valid samples,
\* or the centre pixel when there is none
DepthOf(det) ==
    IF Len(ValidDepths(det.roi)) > 0
    THEN Median(ValidDepths(det.roi)) + Std(ValidDepths(det.roi))
    ELSE det.center

\* nothing observed yet
VoIdle ==
    [n |-> 0, op |-> "none", gt |-> Gt("absent", NOPOS), source |-> "main",
     depth |-> 0, path |-> "none", local |-> NOPOS,
     pose |-> Pose(EeZero, "identity"), out |-> NOPOS, emitted |-> FALSE,
     raised |-> FALSE]

\* get_refined_detections() of the simulated variant on a frame with one
\* detection det, while the ground truth is gt, the packet carries pose and
\* the shared memory of the physics server holds mem; op tells the caller
\* in the observation
Refine(det, gt, pose, mem, op) ==
    /\ det \in env.dets
    /\ bridge.sim_mode
    /\ vo.n < MaxFrames
    \* the pose and the shared memory are read for the wrist camera only
    /\ bridge.current_source_key # "gripper"
          => pose = Pose(EeZero, "identity") /\ mem.kind = "none"
    \* the shared memory is read for an identity orientation only, and the
    \* wrist camera path reads no ground truth: one state of each will do
    /\ pose.orn # "identity" => mem.kind = "none"
    /\ bridge.current_source_key = "gripper"
          => gt \in {Gt("absent", NOPOS), Gt("exists", GtOrigin)}
    /\ LET depth_m == DepthOf(det)
           source == bridge.current_source_key
           seen == [VoIdle EXCEPT !.n = vo.n + 1, !.op = op,
                                  !.gt = gt, !.source = source,
                                  !.depth = depth_m]
       IN IF depth_m <= DEPTH_MIN
          THEN /\ vo' = [seen EXCEPT !.path = "dropped"]
               /\ kf' = kf
          ELSE IF source = "gripper"
          THEN LET w == GripperDriver(det.u, det.v, depth_m, kf)
                   coords_local == w.out
                   r == ProjectGripperCameraToWorld(coords_local, pose.pos,
                                                    pose.orn, mem)
               IN /\ vo' = [seen EXCEPT !.path = "gripper",
                                        !.local = coords_local,
                                        !.pose = pose, !.out = r.p,
                                        !.emitted = ~r.raised,
                                        !.raised = r.raised]
                  /\ kf' = w.kf
          ELSE LET r == PixelToCm(det.u, det.v, depth_m, gt, kf)
               IN /\ vo' = [seen EXCEPT !.path = r.path, !.out = r.out,
                                        !.emitted = (r.out # NOPOS)]
                  /\ kf' = r.kf
    /\ UNCHANGED <<ctl, pc, success, ret, lp, af, gm, env, gh, calls,
                   last_fail, motion, rc, snap, bridge, grasp_memory, gp>>

\* a call of the bridge by the vision tool or the grasp strategy
GetRefinedDetections(det, gt, pose, mem) ==
    /\ Refine(det, gt, pose, mem, "detect")
    /\ UNCHANGED perception_data

(* --------------- sensor/perception/perception_manager.py --------------- *)
\* return refined_list, color_frame, depth_frame
BridgeReturn(refined_list) == <<refined_list, "color", "depth">>

\* detections, main_frame = ...: a tuple of two values is bound to the two
\* names; for any other length the statement raises ValueError
Unpacks(tuple) == Len(tuple) = 2

\* new_perception; the number of the frame stands for the timestamp.  The
\* empty dictionary system_state starts with is the snapshot of frame 0:
\* find_target_object reads its missing detected_objects as an empty list.
Perception(detections, n) ==
    [detected_objects |-> detections, detection_count |-> Len(detections),
     frame |-> n]

\* One iteration of _update_loop: the call of the bridge, the unpacking of
\* what it returns, and the assignment of the new snapshot.  An exception
\* raised by the bridge or by the unpacking is caught at the end of the
\* iteration, which then leaves perception_data as it was.
UpdateLoop(det, gt, pose, mem) ==
    /\ env.started
    /\ Refine(det, gt, pose, mem, "update")
    /\ perception_data' =
          LET refined_list == IF vo'.emitted THEN <<vo'.out>> ELSE <<>> IN
          IF ~vo'.raised /\ Unpacks(BridgeReturn(refined_list))
          THEN Perception(refined_list, vo'.n)
          ELSE perception_data

(* ----------------------- strategy/grasp_planner.py --------------------- *)
\* Lengths in 0.01 cm, gripper opening in 0.01 percent.

\* an entry of grasp_memory; known is false for a name without entry
Params(known, approach_offset_z, gripper_width) ==
    [known |-> known, approach_offset_z |-> approach_offset_z,
     gripper_width |-> gripper_width]
NoParams == Params(FALSE, 0, 0)
\* "cup": {"approach_offset_z": 5.0, "gripper_width": 90.0}
CupParams == Params(TRUE, 500, 9000)
\* parameters handed to update_grasp_memory
LearntParams == Params(TRUE, 800, 7000)

\* GraspPlanner.__init__: of the names explored, only cup is remembered
MemoryInit ==
    [n \in PlannerNames |-> IF n = "cup" THEN CupParams ELSE NoParams]

\* object positions and bounding boxes handed to the planner
ObjectPositions == {<<2000, 500, 300>>, <<2500, 0, 0>>}
Bboxes == {<<0, 0>>, <<40, 50>>, <<100, 120>>, <<100, 40>>}

\* the pose returned; nothing when the call raised
GraspPose(pre_grasp, grasp, gripper_width) ==
    [pre_grasp |-> pre_grasp, grasp |-> grasp,
     gripper_width |-> gripper_width]
NoPose == GraspPose(NOPOS, NOPOS, 0)

\* nothing observed yet
GpIdle ==
    [op |-> "none", name |-> "none", pos |-> NOPOS, bbox |-> <<0, 0>>,
     params |-> NoParams, raised |-> FALSE, pose |-> NoPose]

\* (bbox / FOCAL_LENGTH_PX) * est_dist_cm
EstCm(px) == (px * EST_DIST) \div FOCAL_LENGTH_PX

\* the generic branch when min_dim is the dimension held against the
\* gripper: x offset, opening and grasp depth from the bbox
GenericOn(bbox, min_dim) ==
    LET est_w_cm == EstCm(bbox[1])
        percent == ((min_dim + WIDTH_MARGIN) * PERCENT_FULL)
                   \div GRIPPER_MAX_WIDTH_CM
    IN IF bbox[1] > 0 /\ bbox[2] > 0
       THEN IF min_dim > GRIPPER_MAX_WIDTH_CM
            THEN [x |-> est_w_cm \div 2 - EDGE_MARGIN,
                  percent |-> EDGE_PERCENT, depth |-> 0 - EDGE_DEPTH]
            ELSE [x |-> 0,
                  percent |-> IF Min(percent, PERCENT_FULL) > PERCENT_MIN
                              THEN Min(percent, PERCENT_FULL)
                              ELSE PERCENT_MIN,
                  depth |-> 0 - DEPTH_OFFSET_INIT]
       ELSE [x |-> 0, percent |-> PERCENT_FULL,
             depth |-> 0 - DEPTH_OFFSET_INIT]

\* a planner that holds the estimated width against the gripper
GenericByWidth(bbox) == GenericOn(bbox, EstCm(bbox[1]))

\* the generic branch: min_dim = min(est_w_cm, est_h_cm)
Generic(bbox) == GenericOn(bbox, Min(EstCm(bbox[1]), EstCm(bbox[2])))

\* compute_grasp_pose(object_name, object_position, bbox).  The name
\* grasp_pos_x_offset is bound only in the branch of a name without entry:
\* with an entry, building pre_grasp_pos raises UnboundLocalError.
ComputeGraspPose(object_name, object_position, bbox) ==
    /\ object_name \in env.names
    /\ LET memory_params == grasp_memory[object_name]
           g == Generic(bbox)
           kite == object_name = "kite"
           approach_offset_z == IF kite THEN KITE_APPROACH ELSE APPROACH_INIT
           grasp_depth_offset == IF kite THEN 0 - KITE_DEPTH ELSE g.depth
           x == object_position[1] + g.x
           seen == [GpIdle EXCEPT !.op = "compute", !.name = object_name,
                                  !.pos = object_position, !.bbox = bbox,
                                  !.params = memory_params]
       IN gp' = IF memory_params.known
                THEN [seen EXCEPT !.raised = TRUE]
                ELSE [seen EXCEPT !.pose = GraspPose(
                          <<x, object_position[2],
                            object_position[3] + approach_offset_z>>,
                          <<x, object_position[2],
                            object_position[3] + grasp_depth_offset>>,
                          Min(g.percent, PERCENT_FULL))]
    /\ UNCHANGED <<ctl, pc, success, ret, lp, af, gm, env, gh, calls,
                   last_fail, motion, rc, snap, kf, bridge, vo,
                   perception_data, grasp_memory>>

\* update_grasp_memory(object_name, success, params)
UpdateGraspMemory(object_name, ok) ==
    /\ object_name \in env.names
    /\ grasp_memory' = IF ok
                       THEN [grasp_memory EXCEPT ![object_name] = LearntParams]
                       ELSE grasp_memory
    /\ UNCHANGED <<ctl, pc, success, ret, lp, af, gm, env, gh, calls,
                   last_fail, motion, rc, snap, kf, bridge, vo,
                   perception_data, gp>>

(* ------------------------------ behaviours ----------------------------- *)
Init ==
    /\ is_running = FALSE
    /\ cancel_token = FALSE
    /\ current_state = "IDLE"
    /\ GRASP_DEPTH = GRASP_DEPTH_INIT
    /\ _detect_retry = 0
    /\ _loop_retry_age = NONE
    /\ _last_sent_cmd = <<>>
    /\ _scan_step = NONE
    /\ pc = [t \in Threads |-> "idle"]
    /\ success = [t \in Threads |-> FALSE]
    /\ ret = [t \in Threads |-> FALSE]
    /\ lp = [t \in Threads |-> LpIdle]
    /\ af = [t \in Threads |-> AfIdle]
    /\ gm = [t \in Threads |-> GmIdle]
    /\ env \in Envs
    /\ gh = [t \in Threads |-> GhIdle]
    /\ calls = 0
    /\ last_fail = <<>>
    /\ rc = RcInit
    /\ snap = [action_intent |-> "none", grasp_intent |-> "none"]
    /\ kf = [a \in Axes |-> KfInit]
    /\ bridge = BridgeInit(env.sim_mode)
    /\ vo = VoIdle
    /\ perception_data = Perception(<<>>, 0)
    /\ grasp_memory = MemoryInit
    /\ gp = GpIdle
    /\ arm = IF env.ideal THEN EeFar ELSE NOPOS
    /\ scans = <<>>

Next ==
    \/ \E t \in Threads : \E gz \in GraspOffsets : Call(t, gz)
    \/ Stop
    \/ \E t \in Threads : SM_Cancelled(t)
    \/ \E t \in Threads : SM_Idle(t)
    \/ \E t \in Threads : SM_Detect(t)
    \/ \E t \in Threads : DetectWait(t)
    \/ \E t \in Threads : ServoEnter(t)
    \/ \E t \in Threads : ServoTick(t)
    \/ \E t \in Threads : SM_AutoFocus(t)
    \/ \E t \in Threads : AFStep(t)
    \/ \E t \in Threads : SM_VlmCheck(t)
    \/ \E t \in Threads : SM_Scanning(t)
    \/ \E t \in Threads : SM_Grasp(t)
    \/ \E t \in Threads : GraspMonitor(t)
    \/ \E t \in Threads : GraspPost(t)
    \/ \E t \in Threads : GraspVerify(t)
    \/ \E t \in Threads : SM_Terminal(t)
    \/ \E t \in Threads : Finally(t)
    \/ \E t \in Threads : Release(t)
    \/ \E value \in ActionIntents : Publish("action_intent", value)
    \/ \E value \in GraspIntents : Publish("grasp_intent", value)
    \/ WorkerGet
    \/ WorkerBegin
    \/ WorkerEnd
    \/ \E mode \in Modes : SetMode(mode)
    \/ \E source_key \in SourceKeys : SwitchSource(source_key)
    \/ \E det \in Detections : \E gt \in GroundTruths :
          \E pose \in Poses : \E mem \in SharedMemory :
             GetRefinedDetections(det, gt, pose, mem)
    \/ \E det \in Detections : \E gt \in GroundTruths :
          \E pose \in Poses : \E mem \in SharedMemory :
             UpdateLoop(det, gt, pose, mem)
    \/ \E object_name \in PlannerNames :
          \E object_position \in ObjectPositions : \E bbox \in Bboxes :
             ComputeGraspPose(object_name, object_position, bbox)
    \/ \E object_name \in PlannerNames : \E ok \in BOOLEAN :
          UpdateGraspMemory(object_name, ok)

Spec == Init /\ [][Next]_vars

\* the steps of the invocation running on thread t, from its acceptance to
\* its return
Step(t) ==
    \/ SM_Cancelled(t) \/ SM_Idle(t) \/ SM_Detect(t) \/ DetectWait(t)
    \/ ServoEnter(t) \/ ServoTick(t) \/ SM_AutoFocus(t) \/ AFStep(t)
    \/ SM_VlmCheck(t) \/ SM_Scanning(t) \/ SM_Grasp(t) \/ GraspMonitor(t)
    \/ GraspPost(t) \/ GraspVerify(t) \/ SM_Terminal(t) \/ Finally(t)

\* Every invocation runs on a thread of its own that the interpreter keeps
\* scheduling, and every time.sleep returns: a thread that can take a step
\* takes one.
FairSpec == Spec /\ \A t \in Threads : WF_vars(Step(t))

(* =========================== properties ================================ *)
\* thread t is between its acceptance and its return
Inside(t) == pc[t] \notin {"idle", "done"}
\* thread t has returned from an accepted invocation
Returned(t) == pc[t] = "done" /\ gh[t].accepted
\* thread t has returned from a rejected call
Refused(t) == pc[t] = "done" /\ ~gh[t].accepted

\* C1: at most one caller is inside the state-machine loop, and a call
\* that arrives while another is running returns False having executed
\* no step of the machine.
C1_OneAtATime ==
    /\ \A t, u \in Threads : Inside(t) /\ Inside(u) => t = u
    /\ \A t \in Threads : Refused(t) => ret[t] = FALSE /\ ~gh[t].acted
C1_Witness ==
    \E t, u \in Threads : Inside(t) /\ gh[t].acted /\ Refused(u)

\* C2 (as amended): an invocation returns False when stop() set the flag
\* before the cancellation test that follows the grasp monitoring loop; it
\* returns True with the flag set only when the flag was set after that
\* test.
C2_CancelBeforeLastTest ==
    \A t \in Threads :
        Returned(t) /\ gh[t].stop_pc \notin {"none", "gverify", "finally"}
            => ret[t] = FALSE
C2_Witness ==
    \E t \in Threads :
        /\ Returned(t) /\ ret[t] = FALSE
        /\ gh[t].stop_pc = "gm" /\ gh[t].stop_state = "GRASP"
\* C2 as stated: True with the flag set only when success was already
\* latched (the thread had left the verification) when stop() set it.
C2_CancelBeforeLatch ==
    \A t \in Threads :
        Returned(t) /\ gh[t].stop_pc \notin {"none", "finally"}
            => ret[t] = FALSE

\* C3: an accepted invocation that ends without cancellation returns True
\* with current_state SUCCESS, or False with current_state FAIL.
C3_EndsTerminal ==
    \A t \in Threads :
        Returned(t) /\ gh[t].stop_pc = "none"
            => gh[t].end_state = (IF ret[t] THEN "SUCCESS" ELSE "FAIL")

\* C4: the invocation returns True if and only if the aperture read at the
\* verification is above 0.005; with an aperture of 0.005 or less the
\* machine is in FAIL and the invocation returns False.
C4_GraspVerified ==
    \A t \in Threads :
        Returned(t) =>
            /\ ret[t] <=> (gh[t].verify # NONE /\ gh[t].verify > GRASP_MIN)
            /\ gh[t].verify # NONE /\ gh[t].verify <= GRASP_MIN
                   => gh[t].end_state = "FAIL"
C4_Witness ==
    \E t \in Threads : Returned(t) /\ gh[t].verify = 200 /\ ret[t] = TRUE

\* C5: in every invocation the control loop fails for a lost target only
\* when the target has been missing for more than 2 s since the first
\* missing tick of the episode.
C5_LostGrace ==
    \A t \in Threads :
        gh[t].lost_ep # NONE => gh[t].lost_ep > LOST_GRACE

\* C6: in every invocation DETECT moves to FAIL only after the target was
\* absent on the initial poll and on each of 3 retries of that invocation.
C6_RetryBudget ==
    \A t \in Threads :
        gh[t].fail_misses # NONE => gh[t].fail_misses = DETECT_RETRIES + 1

\* C7: no tick of the control loop runs once 60 s have passed since its
\* start; after the timeout the machine is in FAIL and stays there, and the
\* invocation returns False.
C7_Timeout ==
    \A t \in Threads :
        /\ ~gh[t].late
        /\ gh[t].cause = "timeout" =>
              /\ current_state = "FAIL"
              /\ pc[t] \in {"sm", "finally", "done"}
              /\ ~success[t]
              /\ pc[t] = "done" => ret[t] = FALSE /\ gh[t].end_state = "FAIL"
C7_Witness ==
    \E t \in Threads : Returned(t) /\ gh[t].cause = "timeout"

C9_CausesDiffer ==
    \A t \in Threads :
        /\ Returned(t) /\ ~ret[t] /\ gh[t].cause \in FailCauses
        /\ last_fail # <<>> /\ last_fail[1] # gh[t].cause
        => last_fail[2] # gh[t].end_state

\* C10: an invocation decides and commands as a controller without a past
\* would on the same inputs.
C10_PerInvocation ==
    \A t \in Threads : ~gh[t].diverged

\* C11: an invocation in which a driver call raised, or a motion or
\* gripper command returned False, returns False.
C11_DriverFailureFails ==
    \A t \in Threads :
        Returned(t) /\ (gh[t].raised \/ gh[t].cmd_failed) => ret[t] = FALSE

\* C12: while the safety lock is set, no item is placed on the action
\* queue and the worker begins no action.
C12_LockedIsIdle == ~rc.placed_locked /\ ~rc.started_locked

\* C13: every stop intent delivered is executed before
\* on_intent_received returns (cancellation requested, driver emergency
\* stop called, queue empty), and no stop intent is ever on the action
\* queue.
C13_EveryStopExecuted ==
    /\ rc.ev # "stop_ignored"
    /\ rc.ev = "stop" =>
          cancel_token /\ rc.estop /\ rc.action_queue = <<>>
    /\ \A i \in 1..Len(rc.action_queue) :
          rc.action_queue[i][1] = "action" => ~IsStop(rc.action_queue[i][2])

\* C14: in the simulated variant, a frame taken while the ground truth
\* reports no existing object (no object state, or exists false) yields no
\* RefinedDetection, whatever the pixel and the positive depth.
C14_PhantomSuppressed ==
    (vo.op = "detect" /\ vo.gt.kind \in {"absent", "gone"}) => ~vo.emitted

\* C15: after pixel_to_cm took the oracle path, each axis filter holds the
\* returned corrected coordinate with the uncertainty of a new filter, and
\* an update with that coordinate returns it unchanged.
C15_OracleResetsFilters ==
    vo.path = "oracle" =>
        \A a \in Axes :
            /\ kf[a].state_estimate = vo.out[Coord(a)]
            /\ kf[a].post_error_cov = COV_ONE
            /\ KalmanUpdate(kf[a], vo.out[Coord(a)]).returned
               = vo.out[Coord(a)]

\* the oracle path taken on filters that had smoothed two other positions
C15_Witness ==
    /\ vo.path = "oracle"
    /\ \E a \in Axes : /\ kf[a].is_initialized
                       /\ Cardinality(kf[a].fed) = 2
                       /\ vo.out[Coord(a)] \notin kf[a].fed

\* C16: a filter that was only ever fed one value c returns c from its
\* first update and from every update after it, and holds c as
\* state_estimate.
C16_NoTransient ==
    \A a \in Axes :
        (~kf[a].was_reset /\ Cardinality(kf[a].fed) = 1) =>
            /\ kf[a].is_initialized
            /\ kf[a].fed = {kf[a].state_estimate}
            /\ kf[a].returned = kf[a].state_estimate

\* three updates of one filter with the same non-zero value
C16_Witness ==
    /\ vo.n = MaxFrames
    /\ vo.path = "filter"
    /\ \E a \in Axes : /\ ~kf[a].was_reset
                       /\ kf[a].fed = {kf[a].state_estimate}
                       /\ kf[a].state_estimate # 0
                       /\ kf[a].post_error_cov # COV_ONE

\* C17: unless switch_source was called directly, the active source is the
\* wrist camera exactly when the mode last set is EXPLOITATION.
C17_SourceFollowsMode ==
    ~bridge.direct =>
        (bridge.current_source_key = "gripper"
            <=> bridge.current_mode = "EXPLOITATION")

\* C18: a RefinedDetection is emitted only for a depth estimate inside the
\* plausible range, above 0.1 m and below 3.0 m.
C18_DepthInRange ==
    vo.emitted => (vo.depth > DEPTH_MIN /\ vo.depth < DEPTH_MAX)

\* C19: on an end-effector pose with identity orientation and zero
\* position, the wrist-camera projection returns (-y, -x, -z) of the
\* view-space point (x, y, z), whatever the shared memory holds.
C19_IdentityPoseBasisChange ==
    (vo.path = "gripper" /\ vo.pose = Pose(EeZero, "identity")) =>
        /\ ~vo.raised
        /\ vo.out = <<0 - vo.local[2], 0 - vo.local[1], 0 - vo.local[3]>>

\* C20: for a name present in the grasp memory, compute_grasp_pose returns
\* a pose whose pre_grasp is the object position raised by the remembered
\* approach_offset_z, with the remembered gripper_width.
C20_MemoryReused ==
    (gp.op = "compute" /\ gp.params.known) =>
        /\ ~gp.raised
        /\ gp.pose.pre_grasp
           = <<gp.pos[1], gp.pos[2], gp.pos[3] + gp.params.approach_offset_z>>
        /\ gp.pose.gripper_width = gp.params.gripper_width

\* the lateral offset of the pose the planner returned last
LateralOffset == gp.pose.pre_grasp[1] - gp.pos[1]
\* a pose was returned for a name without memory entry
PlannedGeneric == gp.op = "compute" /\ ~gp.params.known /\ ~gp.raised

\* C21: for an object not in memory, the planner returns a nonzero lateral
\* offset and an aperture below 100 % exactly when the smaller of the
\* estimated width and height exceeds the gripper's maximum aperture;
\* otherwise the lateral offset is zero.
C21_EdgeGraspOnSmallerDim ==
    PlannedGeneric =>
        IF Min(EstCm(gp.bbox[1]), EstCm(gp.bbox[2])) > GRIPPER_MAX_WIDTH_CM
        THEN LateralOffset # 0 /\ gp.pose.gripper_width < PERCENT_FULL
        ELSE LateralOffset = 0

\* an edge grasp was planned for a box too large in both dimensions
C21_Witness ==
    /\ PlannedGeneric
    /\ Min(EstCm(gp.bbox[1]), EstCm(gp.bbox[2])) > GRIPPER_MAX_WIDTH_CM
    /\ LateralOffset > 0

\* C21 as stated: an estimated width above the maximum aperture gives a
\* nonzero lateral offset and a reduced aperture.
C21_EdgeGraspOnWidth ==
    (PlannedGeneric /\ EstCm(gp.bbox[1]) > GRIPPER_MAX_WIDTH_CM) =>
        (LateralOffset # 0 /\ gp.pose.gripper_width < PERCENT_FULL)

\* the state changes of execute_approach_and_grasp's state machine
LegalTransitions ==
    {<<"IDLE", "DETECT">>, <<"DETECT", "VISUAL_SERVO">>, <<"DETECT", "FAIL">>,
     <<"VISUAL_SERVO", "AUTO_FOCUS">>, <<"VISUAL_SERVO", "FAIL">>,
     <<"AUTO_FOCUS", "VLM_CHECK">>, <<"VLM_CHECK", "GRASP">>,
     <<"VLM_CHECK", "SCANNING">>, <<"SCANNING", "AUTO_FOCUS">>,
     <<"GRASP", "SUCCESS">>, <<"GRASP", "FAIL">>}

\* a caller is accepted: the machine is put back to IDLE before it runs
Accepted == \E t \in Threads : ~gh[t].accepted /\ gh'[t].accepted

Ticked(t) ==
    pc[t] = "vs" /\ lp'[t].elapsed > lp[t].elapsed /\ lp'[t].cmd # <<>>

\* squared horizontal error of the actuator to the target
HorizErr2 == Sq(arm[1] - Target[1]) + Sq(arm[2] - Target[2])

\* the loop switches to DESCEND in exactly the ticks of APPROACH that read
\* a horizontal error below 1.0 cm, and never switches back
SwitchesWhenAligned(t) ==
    /\ lp[t].phase = "APPROACH"
       => (lp'[t].phase = "DESCEND" <=> HorizErr2 < Sq(XY_THRESHOLD))
    /\ lp[t].phase = "DESCEND" => lp'[t].phase = "DESCEND"

\* C23: with the target fixed and an ideal actuator, the loop switches from
\* APPROACH to DESCEND at the first tick whose horizontal error is below
\* 1.0 cm and at no earlier tick; the command of the switching tick is
\* still computed toward the approach goal, and every command of a later
\* tick toward the descend goal.
C23_SwitchThenDescend ==
    [][\A t \in Threads :
         env.ideal /\ Ticked(t)
         => /\ SwitchesWhenAligned(t)
            /\ lp'[t].cmd = Cmd(arm, IF lp[t].phase = "APPROACH"
                                     THEN ApproachGoal(Target)
                                     ELSE DescendGoal(Target))]_vars

\* the ideal actuator has been sent below the approach height in DESCEND
C23_Witness ==
    \E t \in Threads :
      /\ env.ideal /\ pc[t] = "vs" /\ lp[t].phase = "DESCEND" /\ lp[t].sent
      /\ arm[3] < ApproachGoal(Target)[3] - Z_THRESHOLD

\* C23 as stated: the switch is made at the first aligned tick, and every
\* command issued once the loop has switched, the one of the switching
\* tick included, aims at the descend goal.
C23_FirstCommandDescends ==
    [][\A t \in Threads :
         env.ideal /\ Ticked(t)
         => /\ SwitchesWhenAligned(t)
            /\ lp'[t].phase = "DESCEND" /\ lp'[t].sent
               => lp'[t].cmd = Cmd(arm, DescendGoal(Target))]_vars
\* the point the gripper is to reach: the target lowered by the grasp depth
GraspPoint == DescendGoal(Target)

\* causes for which _visual_servo_loop returns False
LoopFailures == {"cancel", "timeout", "lost"}

\* C24: with the target at (30,0,5) cm, the actuator ideal and starting at
\* (0,0,20) cm, approach height 8 cm and gain 0.8, every tick that sends
\* the actuator on leaves it strictly nearer (in 3-D) to the grasp point
\* than it was, the loop never returns failure, and it is over before the
\* horizon of ticks explored, which lies inside the 600 ticks of the
\* 60 s budget.
C24_Converges ==
    /\ [][\A t \in Threads :
            env.ideal /\ Ticked(t)
            => Dist2(arm', GraspPoint) < Dist2(arm, GraspPoint)]_vars
    /\ [](\A t \in Threads :
            env.ideal
            => /\ gh[t].cause \notin LoopFailures
               /\ pc[t] = "vs"
                  => lp[t].elapsed
                       < Min(MaxTicks, TIMEOUT \div LOOP_PERIOD) * LOOP_PERIOD)

\* the loop has returned success with the ideal actuator at the grasp point
C24_Witness ==
    \E t \in Threads :
      /\ env.ideal /\ current_state = "AUTO_FOCUS" /\ gh[t].z_det # NONE
      /\ Dist2(arm, GraspPoint) < Sq(Z_THRESHOLD)
\* C25: in a tick of the control loop that sees the target and computes a
\* command, the command is skipped if and only if a last-sent command
\* exists, the new point lies less than 0.1 cm from it and the speed is the
\* same; a skipped command leaves the last-sent command as it was, and
\* every other command is sent and becomes the last-sent command.
C25_SkippedIffSame ==
    [][\A t \in Threads :
         Ticked(t)
         => LET cmd == lp'[t].cmd
                last == _last_sent_cmd
                same == /\ last # <<>>
                        /\ Sq(cmd[1] - last[1]) + Sq(cmd[2] - last[2])
                             + Sq(cmd[3] - last[3]) < Sq(DEDUP_DIST)
                        /\ cmd[4] = last[4]
            IN /\ ~lp'[t].sent <=> same
               /\ _last_sent_cmd' = IF same THEN last ELSE cmd]_vars

\* a command has been skipped that is near the last-sent command without
\* being equal to it
C25_Witness ==
    \E t \in Threads :
      /\ pc[t] = "vs" /\ lp[t].cmd # <<>> /\ ~lp[t].sent
      /\ _last_sent_cmd # <<>> /\ _last_sent_cmd # lp[t].cmd
\* C26: whenever _execute_auto_focus finishes without cancellation, the
\* last z it commanded is the start z plus the offset at which the best
\* focus score was read (the start z when no step improved the score).
C26_EndsAtBest ==
    \A t \in Threads :
      af[t].done = "end" => af[t].last_z = af[t].start[3] + af[t].best_off

\* C27: every point commanded by an AUTO_FOCUS pass has the x and y of the
\* start pose and a z within 5 cm of the start z, and the pass evaluates at
\* most 10 search steps, whatever the focus scores are.
C27_Bounded ==
    \A t \in Threads :
      af[t].start # NOPOS
      => /\ af[t].i <= AF_ITER
         /\ \A k \in 1 .. Len(af[t].sent) :
              /\ af[t].sent[k][1] = af[t].start[1]
              /\ af[t].sent[k][2] = af[t].start[2]
              /\ Abs(af[t].sent[k][3] - af[t].start[3]) <= AF_RANGE

\* a pass has evaluated 10 steps and has commanded a point 5 cm above the
\* start pose
C27_Witness ==
    \E t \in Threads :
      /\ af[t].done = "end" /\ af[t].i = AF_ITER
      /\ af[t].last_z = af[t].start[3] + AF_RANGE
\* the four moves of a scanning pass: 2 cm along +X, -X, +Y or -Y
ScanMoves ==
    {<<SCAN_OFFSET, 0>>, <<0 - SCAN_OFFSET, 0>>, <<0, SCAN_OFFSET>>,
     <<0, 0 - SCAN_OFFSET>>}

Monitored(t) == pc[t] = "gm" /\ (pc'[t] = "gm_post" \/ gm'[t] # gm[t])

\* a pass that takes a sample counts it: one more still sample, or none
\* after a sample that moved by 0.0005 or more
CountsStill(t) ==
    gm[t].elapsed < GRASP_WINDOW /\ ~cancel_token
    => gm'[t].stable = IF Abs(gm'[t].last - gm[t].last) < GRASP_EPS
                       THEN gm[t].stable + 1 ELSE 0

\* C29: after the close command the monitor ends exactly in the pass that
\* finds 3.5 s elapsed, or the cancellation flag set, or that counts the
\* tenth consecutive sample within 0.0005 of the sample before it; a
\* sample that moved by 0.0005 or more puts the count back to zero.
C29_MonitorEnds ==
    [][\A t \in Threads :
         Monitored(t)
         => /\ CountsStill(t)
            /\ pc'[t] = "gm_post"
               <=> \/ gm[t].elapsed >= GRASP_WINDOW
                   \/ cancel_token
                   \/ gm'[t].stable >= GRASP_STABLE]_vars

\* the monitor has ended on ten still samples that followed a moving one
C29_Witness ==
    \E t \in Threads :
      /\ pc[t] = "gm_post" /\ gm[t].stable = GRASP_STABLE
      /\ gm[t].elapsed > GRASP_STABLE * GRASP_SAMPLE

\* C29 as stated: the monitor ends exactly on ten consecutive still
\* samples or on 3.5 s elapsed.
C29_EndsOnStillOrWindow ==
    [][\A t \in Threads :
         Monitored(t)
         => /\ CountsStill(t)
            /\ pc'[t] = "gm_post"
               <=> \/ gm[t].elapsed >= GRASP_WINDOW
                   \/ gm'[t].stable >= GRASP_STABLE]_vars
\* the bridge processes a frame in this step
Framed == vo'.n = vo.n + 1

\* C30: the filters of the world camera change only in a step that
\* processes a frame of the world (main) source; a frame of the wrist
\* (gripper) source leaves them as they are, and the point it yields is
\* the projection of the view-space point under the pose of the packet,
\* whatever the filters hold; set_mode and switch_source leave the
\* filters as the last world-source frame left them.
C30_FiltersPerSource ==
    [][/\ kf' # kf => Framed /\ vo'.source = "main"
       /\ Framed /\ vo'.path = "gripper"
          => /\ kf' = kf
             /\ \E mem \in SharedMemory :
                  LET r == ProjectGripperCameraToWorld(
                               vo'.local, vo'.pose.pos, vo'.pose.orn, mem)
                  IN vo'.out = r.p /\ vo'.raised = r.raised
       /\ bridge' # bridge => kf' = kf]_vars

\* a wrist frame was processed on filters that hold a history of the world
\* camera, and the source has been switched back
C30_Witness ==
    /\ vo.path = "gripper" /\ vo.out # NOPOS
    /\ bridge.current_source_key = "main"
    /\ \E a \in Axes : kf[a].is_initialized /\ kf[a].fed # {}
\* C31: once an emergency stop has returned, no servo sequence that comes
\* from an item the worker took before the stop is inside
\* execute_approach_and_grasp with the cancellation flag clear (a sequence
\* that the stop found running and that is unwinding under the set flag is
\* not counted).
C31_StopNotLost ==
    \A t \in Threads : rc.stale /\ Inside(t) => cancel_token
\* C32: after stop() has set the cancellation flag, the running invocation
\* issues at most one further move_robot or move_gripper command before it
\* returns, whichever state it was in.
C32_AtMostOneCommand ==
    \A t \in Threads : gh[t].after # NONE => gh[t].after <= 1
\* the control loop of thread t has run the ticks explored; the ticks that
\* follow, up to the timeout that ends the loop, are not
Horizon(t) == pc[t] = "vs" /\ lp[t].elapsed >= MaxTicks * LOOP_PERIOD

\* C33: every accepted invocation of execute_approach_and_grasp eventually
\* returns, whether or not stop() is called, for every behaviour of the
\* detection list, the end-effector pose, the focus score and the gripper
\* aperture.  (A control loop that reaches the horizon of ticks explored
\* counts as returning.)
C33_Terminates ==
    \A t \in Threads : Inside(t) ~> (pc[t] = "done" \/ Horizon(t))
\* C34: whenever _visual_servo_loop returns success, the horizontal error
\* between the end-effector pose and the target position read at that tick
\* is below 1.0 cm.
C34_SuccessAligned ==
    \A t \in Threads :
        gh[t].xy_det # NONE => gh[t].xy_det < Sq(XY_THRESHOLD)
\* C35: whenever an accepted invocation returns, by success, failure,
\* cancellation or a caught exception, is_running is False afterwards, and
\* a call is rejected only while an invocation is in progress: the call
\* that follows a return is accepted.
C35_FlagReleased ==
    [][\A t \in Threads :
         /\ (pc[t] = "finally" /\ pc'[t] = "done" => ~is_running')
         /\ (Returned(t) => ~is_running)
         /\ (pc[t] = "idle" /\ pc'[t] = "done"
               => \E u \in Threads : Inside(u))]_vars

\* an invocation that ended on a caught exception has returned and the
\* flag is released
C35_Witness == \E t \in Threads : Returned(t) /\ gh[t].raised /\ ~is_running
\* C36: a call of execute_approach_and_grasp that is rejected because
\* another is running leaves is_running, the cancellation flag,
\* current_state and the grasp depth offset of the running invocation
\* unchanged.
C36_RejectionChangesNothing ==
    [][\A t \in Threads :
         pc[t] = "idle" /\ pc'[t] = "done"
         => UNCHANGED <<is_running, cancel_token, current_state,
                        GRASP_DEPTH>>]_vars

\* a call has been rejected while an invocation that took the offset 0 is
\* closing the gripper
C36_Witness ==
    \E t, u \in Threads :
        /\ Refused(t) /\ Inside(u) /\ is_running
        /\ GRASP_DEPTH = 0 /\ current_state = "GRASP"
\* C37: in every iteration of the perception update loop in which the
\* bridge produces a detection list, system_state.perception_data is
\* replaced by a new snapshot whose detected_objects is that list, which
\* find_target_object then reads.
C37_Published ==
    vo.op = "update" /\ ~vo.raised
    => perception_data
          = Perception(IF vo.emitted THEN <<vo.out>> ELSE <<>>, vo.n)
====
